---- MODULE Spec2Model ----
(***************************************************************************)
(* Model of the customvmcpu virtual machine (libcustomvmcpu/src/runtime.rs *)
(* and common.rs): the flat byte memory, the twelve 32-bit registers, the  *)
(* execute loop and the instruction handlers.                              *)
(*                                                                         *)
(* A u32 is kept at its full width.  It is written as the pair <<hi, lo>>  *)
(* of its two 16-bit halves (value hi * 2^16 + lo), because the model      *)
(* checker's integers are narrower than an unsigned 32-bit value; every    *)
(* arithmetic operator below works on such pairs and wraps modulo 2^32     *)
(* exactly where the Rust operation does.                                  *)
(***************************************************************************)
EXTENDS Integers, Sequences, FiniteSets, TLC

(***************************************************************************)
(* u32 values                                                              *)
(***************************************************************************)
H16 == 2 ^ 16

u32(n) == <<n \div H16, n % H16>>

Lt(x, y) == x[1] < y[1] \/ (x[1] = y[1] /\ x[2] < y[2])

Geq(x, y) == ~Lt(x, y)

wrapping_add(x, y) ==
    LET l == x[2] + y[2]
        h == x[1] + y[1] + (l \div H16)
    IN  <<h % H16, l % H16>>

wrapping_sub(x, y) ==
    LET l == x[2] - y[2]
        b == IF l < 0 THEN 1 ELSE 0
        h == x[1] - y[1] - b
    IN  <<(h + H16) % H16, (l + H16) % H16>>

\* a * b modulo 2^16 for 16-bit a, b, without leaving the checker's integers
MulMod16(a, b) == (((a * (b \div 256)) % 256) * 256 + a * (b % 256)) % H16

\* the full 32-bit product of two 16-bit values
Mul16(a, b) ==
    LET p0 == a * (b % 256)
        q  == a * (b \div 256)
    IN  wrapping_add(<<p0 \div H16, p0 % H16>>, <<q \div 256, (q % 256) * 256>>)

wrapping_mul(x, y) ==
    LET low   == Mul16(x[2], y[2])
        cross == (MulMod16(x[1], y[2]) + MulMod16(x[2], y[1])) % H16
    IN  <<(low[1] + cross) % H16, low[2]>>

Bit(x, i) == IF i >= 16 THEN (x[1] \div (2 ^ (i - 16))) % 2 ELSE (x[2] \div (2 ^ i)) % 2

Shl1(x) == <<((x[1] * 2) + (x[2] \div 32768)) % H16, (x[2] * 2) % H16>>

RECURSIVE DivRem(_, _, _)
\* schoolbook binary long division: <<quotient, remainder>> of (x >> i) by y.
\* When the remainder's top bit is set, doubling it leaves 32 bits: the divisor
\* fits, and the wrapping subtraction gives the true remainder.
DivRem(x, y, i) ==
    IF i >= 32 THEN <<<<0, 0>>, <<0, 0>>>>
    ELSE LET p == DivRem(x, y, i + 1)
         IN  IF p[2][1] >= 32768 \/ Geq(wrapping_add(Shl1(p[2]), <<0, Bit(x, i)>>), y)
             THEN <<wrapping_add(Shl1(p[1]), <<0, 1>>),
                    wrapping_sub(wrapping_add(Shl1(p[2]), <<0, Bit(x, i)>>), y)>>
             ELSE <<Shl1(p[1]), wrapping_add(Shl1(p[2]), <<0, Bit(x, i)>>)>>

\* x / y on u32 (y # 0)
unsigned_div(x, y) == DivRem(x, y, 0)[1]

RECURSIVE And16(_, _)
And16(a, b) == IF a = 0 \/ b = 0 THEN 0
               ELSE (a % 2) * (b % 2) + 2 * And16(a \div 2, b \div 2)

RECURSIVE Or16(_, _)
Or16(a, b) == IF a = 0 THEN b ELSE IF b = 0 THEN a
              ELSE (IF a % 2 = 1 \/ b % 2 = 1 THEN 1 ELSE 0) + 2 * Or16(a \div 2, b \div 2)

RECURSIVE Xor16(_, _)
Xor16(a, b) == IF a = 0 THEN b ELSE IF b = 0 THEN a
               ELSE ((a + b) % 2) + 2 * Xor16(a \div 2, b \div 2)

bitand(x, y) == <<And16(x[1], y[1]), And16(x[2], y[2])>>

bitor(x, y) == <<Or16(x[1], y[1]), Or16(x[2], y[2])>>

bitxor(x, y) == <<Xor16(x[1], y[1]), Xor16(x[2], y[2])>>

bitnot(x) == <<H16 - 1 - x[1], H16 - 1 - x[2]>>

\* x >> n and x << n for 0 <= n < 32, zero fill
shr(x, n) ==
    IF n >= 16 THEN <<0, x[1] \div (2 ^ (n - 16))>>
    ELSE <<x[1] \div (2 ^ n), (((x[1] % (2 ^ n)) * (2 ^ (16 - n))) + (x[2] \div (2 ^ n))) % H16>>

shl(x, n) ==
    IF n >= 16 THEN <<(x[2] * (2 ^ (n - 16))) % H16, 0>>
    ELSE <<(((x[1] * (2 ^ n)) % H16) + (x[2] \div (2 ^ (16 - n)))) % H16, (x[2] * (2 ^ n)) % H16>>

\* i32::from_le_bytes(u32::to_le_bytes(x)) compared with 0
signed_lt0(x) == x[1] >= 32768

\* a faulty > 0 that reads the value as unsigned
unsigned_gt0(x) == x # <<0, 0>>

signed_gt0(x) == x[1] < 32768 /\ x # <<0, 0>>

(***************************************************************************)
(* common.rs: registers, opcodes, errors                                   *)
(***************************************************************************)
R0 == 0
R1 == 1
R2 == 2
R3 == 3
R4 == 4
R5 == 5
R6 == 6
R7 == 7
SP == 8
IP == 9
RA == 10
ERR == 11

LAST_REGISTER == ERR

\* Register::from_u8: Some for the twelve variants, None otherwise
Register_from_u8(n) == n <= LAST_REGISTER

Registers == 0 .. LAST_REGISTER

CPY == 0
LW == 1
SW == 2
LH == 3
SH == 4
LB == 5
SB == 6
LI == 7
ADD == 8
SUB == 9
MUL == 10
DIV == 11
AND == 12
OR == 13
XOR == 14
NOT == 15
J == 16
JI == 17
JIL == 18
JZI == 19
JNZI == 20
JLZI == 21
JGZI == 22
SYSCALLI == 23
SRL == 24
SLL == 25
SRLI == 26
SLLI == 27
ADDI == 28
SUBI == 29
MULI == 30
DIVI == 31
\* The immediate-address loads and stores are dispatched by runtime.rs; the
\* revision of the OpCode enum that declares them is not part of the sources,
\* so their numbers continue the enum after DIVI.
LWI == 32
SWI == 33
LHI == 34
SHI == 35
LBI == 36
SBI == 37

\* OpCode::from_u8: Some for a declared variant, None otherwise
OpCode_from_u8(n) == n <= SBI

Error_NoError == 0
Error_OpCode == 1
Error_Register == 2
Error_Syscall == 3
Error_Memory == 4
Error_ReadonlyRegister == 5
Error_DivisorNotZero == 6

ERROR_START_NUM == 32000

(***************************************************************************)
(* runtime.rs: BinaryInterpreter, the flat memory                          *)
(*                                                                         *)
(* The Vec<u8> of BINARY_INTERPRETER_MEM_SIZE zero bytes is kept as the    *)
(* function from the addresses written so far to their bytes; every other  *)
(* address below the length holds 0.                                       *)
(***************************************************************************)
BINARY_INTERPRETER_MEM_SIZE == 4194304

len == BINARY_INTERPRETER_MEM_SIZE

None == <<>>

Some(v) == <<v>>

\* memory[a]
byte_at(mem, a) == IF a \in DOMAIN mem THEN mem[a] ELSE 0

\* pos as usize, for a pos whose range check passed
usize(pos) == pos[1] * H16 + pos[2]

\* a faulty range check that refuses the last byte of the memory
slice_in_bounds_exclusive(pos, n) == pos[1] <= len \div H16 /\ usize(pos) + n < len

\* memory.get(pos as usize..pos as usize + n) is Some: the range ends within
\* the vector (usize is wider than 32 bits, so the sum does not wrap)
slice_in_bounds(pos, n) == pos[1] <= len \div H16 /\ usize(pos) + n <= len

u32_from_le_bytes(b) == <<b[4] * 256 + b[3], b[2] * 256 + b[1]>>

\* a faulty conversion that stores the most significant byte first
u32_to_be_bytes(v) == <<v[1] \div 256, v[1] % 256, v[2] \div 256, v[2] % 256>>

u32_to_le_bytes(v) == <<v[2] % 256, v[2] \div 256, v[1] % 256, v[1] \div 256>>

u16_from_le_bytes(b) == b[2] * 256 + b[1]

u16_to_le_bytes(v) == <<v % 256, v \div 256>>

\* slice.copy_from_slice(bytes) at address a
copy_from_slice(mem, a, bytes) ==
    [x \in DOMAIN mem \cup (a .. a + Len(bytes) - 1) |->
        IF x >= a /\ x < a + Len(bytes) THEN bytes[x - a + 1] ELSE mem[x]]

read_u32(mem, pos) ==
    IF slice_in_bounds(pos, 4)
    THEN Some(u32_from_le_bytes([i \in 1 .. 4 |-> byte_at(mem, usize(pos) + i - 1)]))
    ELSE None

\* the memory after write_u32, and the bool it returns
write_u32(mem, pos, value) ==
    IF slice_in_bounds(pos, 4)
    THEN [ok |-> TRUE, memory |-> copy_from_slice(mem, usize(pos), u32_to_le_bytes(value))]
    ELSE [ok |-> FALSE, memory |-> mem]

read_u16(mem, pos) ==
    IF slice_in_bounds(pos, 2)
    THEN Some(u16_from_le_bytes([i \in 1 .. 2 |-> byte_at(mem, usize(pos) + i - 1)]))
    ELSE None

write_u16(mem, pos, value) ==
    IF slice_in_bounds(pos, 2)
    THEN [ok |-> TRUE, memory |-> copy_from_slice(mem, usize(pos), u16_to_le_bytes(value))]
    ELSE [ok |-> FALSE, memory |-> mem]

read_u8(mem, pos) ==
    IF slice_in_bounds(pos, 1) THEN Some(byte_at(mem, usize(pos))) ELSE None

write_u8(mem, pos, value) ==
    IF slice_in_bounds(pos, 1)
    THEN [ok |-> TRUE, memory |-> copy_from_slice(mem, usize(pos), <<value>>)]
    ELSE [ok |-> FALSE, memory |-> mem]

\* A slice or Vec handed to a loader is the record of its length and of its
\* elements: `at` maps the 1-based index of an element to it, and an index
\* beyond DOMAIN at holds zero.  A sequence is the Vec that lists them all.
vec(elements) == [length |-> Len(elements), at |-> elements]

RECURSIVE write_program(_, _, _)
\* new_with_program's loop: write_u32(pos * 4, program[pos]) for the positions
\* in ascending order, the result ignored; `todo` holds the positions still
\* to come whose word is listed (writing a zero word leaves the zeroed
\* memory as it is, whether the write succeeds or fails)
write_program(mem, program, todo) ==
    IF todo = {} THEN mem
    ELSE LET pos == CHOOSE p \in todo : \A q \in todo : p <= q
         IN  write_program(write_u32(mem, u32(pos * 4), program.at[pos + 1]).memory,
                           program, todo \ {pos})

\* BinaryInterpreter::new_with_program: None when the program has more words
\* than the memory has bytes
new_with_program(program) ==
    IF program.length > len THEN None
    ELSE Some(write_program(<<>>, program, {i - 1 : i \in DOMAIN program.at}))

\* BinaryInterpreter::new_with_initial: None when memory.get_mut(0..length)
\* is, that is when the initial memory is longer than the memory
new_with_initial(initial_memory) ==
    IF initial_memory.length > len THEN None
    ELSE Some([a \in {i - 1 : i \in DOMAIN initial_memory.at} |-> initial_memory.at[a + 1]])

(***************************************************************************)
(* runtime.rs: instruction fields                                          *)
(***************************************************************************)
\* (instruction & 0xFF000000) >> 24
get_opcode(instruction) == shr(bitand(instruction, <<65280, 0>>), 24)[2]

\* instruction & 0x00FFFFFF
get_immediate(instruction) == bitand(instruction, <<255, 65535>>)

\* instruction & 0x0000000F
get_registers(instruction) == bitand(instruction, <<0, 15>>)[2]

\* a faulty decoder that takes the first register from bits 19..16
get_two_registers_low_nibble(instruction) ==
    <<shr(bitand(instruction, <<15, 0>>), 16)[2], bitand(instruction, <<0, 15>>)[2]>>

\* ((instruction & 0x00F00000) >> 20, instruction & 0x0000000F)
get_two_registers(instruction) ==
    <<shr(bitand(instruction, <<240, 0>>), 20)[2], bitand(instruction, <<0, 15>>)[2]>>

\* ((instruction & 0x00F00000) >> 20, instruction & 0x000FFFFF)
get_register_and_immediate(instruction) ==
    <<shr(bitand(instruction, <<240, 0>>), 20)[2], bitand(instruction, <<15, 65535>>)>>

\* a faulty get_u32_from_immediate that never extends the sign
get_u32_from_immediate_unsigned(imm, bitmask, check_negative_bitmask) == imm

\* imm when its sign bit is clear, imm | !bitmask otherwise
get_u32_from_immediate(imm, bitmask, check_negative_bitmask) ==
    IF bitand(imm, check_negative_bitmask) = <<0, 0>> THEN imm
    ELSE bitor(imm, bitnot(bitmask))

get_register_and_twos_complement_immediate(instruction) ==
    <<shr(bitand(instruction, <<240, 0>>), 20)[2],
      get_u32_from_immediate(bitand(instruction, <<15, 65535>>), <<15, 65535>>, <<8, 0>>)>>

(***************************************************************************)
(* runtime.rs: utils, the instruction encoders                             *)
(***************************************************************************)
create_instruction_register(opcode, reg) ==
    bitor(shl(<<0, opcode>>, 24), <<0, reg>>)

create_instruction_immediate(opcode, imm) ==
    bitor(shl(<<0, opcode>>, 24), imm)

create_instruction_register_and_immediate(opcode, reg, imm) ==
    bitor(bitor(shl(<<0, opcode>>, 24), shl(<<0, reg>>, 20)), bitand(imm, <<15, 65535>>))

create_instruction_two_registers(opcode, reg0, reg1) ==
    bitor(bitor(shl(<<0, opcode>>, 24), shl(<<0, reg0>>, 20)), <<0, reg1>>)

(***************************************************************************)
(* runtime.rs: VirtualMachine                                              *)
(*                                                                         *)
(* A handler is an operator from the machine `this` to the machine after   *)
(* the call.  `this` carries the fields of the struct (registers, running, *)
(* the interpreter's memory), the build's overflow_checks setting, whether *)
(* the call panicked, and the calls made to write_user_register_value.     *)
(***************************************************************************)
read_register_value(this, reg) == this.registers[reg]

read_user_register_value(this, reg) == read_register_value(this, reg)

write_register_value(this, reg, value) == [this EXCEPT !.registers[reg] = value]

write_error(this, err) == write_register_value(this, ERR, u32(err))

\* a faulty is_readonly that protects IP only
is_readonly_ip_only(reg) == reg = IP

is_readonly(reg) == reg \in {IP, ERR}

write_user_register_value(this, reg, value) ==
    LET called == [this EXCEPT !.wrote = Append(@, <<reg, value>>)]
    IN  IF is_readonly(reg)
        THEN write_error(called, Error_ReadonlyRegister)
        ELSE write_register_value(called, reg, value)

panic(this) == [this EXCEPT !.panicked = TRUE]

\* x + y on u32: a panic when it overflows in a build with overflow checks,
\* the wrapped sum otherwise
add(this, x, y) ==
    IF this.overflow_checks /\ Lt(wrapping_add(x, y), x)
    THEN [this |-> panic(this), result |-> <<0, 0>>]
    ELSE [this |-> this, result |-> wrapping_add(x, y)]

\* x >> y and x << y on u32 with a u32 amount: a panic when y >= 32 in a
\* build with overflow checks, the shift by y & 31 otherwise
shift_right(this, x, y) ==
    IF Geq(y, <<0, 32>>) /\ this.overflow_checks
    THEN [this |-> panic(this), result |-> <<0, 0>>]
    ELSE [this |-> this, result |-> shr(x, y[2] % 32)]

shift_left(this, x, y) ==
    IF Geq(y, <<0, 32>>) /\ this.overflow_checks
    THEN [this |-> panic(this), result |-> <<0, 0>>]
    ELSE [this |-> this, result |-> shl(x, y[2] % 32)]

\* a faulty write_next_instruction_address that saves the address of the
\* syscall itself
write_current_instruction_address(this) ==
    write_register_value(this, RA, read_register_value(this, IP))

write_next_instruction_address(this) ==
    LET next == add(this, read_register_value(this, IP), <<0, 4>>)
    IN  IF next.this.panicked THEN next.this
        ELSE write_register_value(this, RA, next.result)

\* whether the `length` bytes from `start` lie within the memory
range_in_bounds(start, length) ==
    /\ ~Lt(u32(len), start)
    /\ ~Lt(u32(len), length)
    /\ usize(start) + usize(length) <= len

\* a faulty print syscall that takes R2 for the start and R1 for the length
syscall_print_swapped(this) ==
    LET start  == read_register_value(this, R2)
        length == read_register_value(this, R1)
    IN  IF range_in_bounds(start, length)
        THEN [this EXCEPT !.stdout =
                 @ \o [i \in 1 .. usize(length) |->
                          byte_at(this.memory, usize(start) + i - 1)]]
        ELSE write_error(this, Error_Memory)

\* The print syscall.  The tests and callers in the sources construct the VM
\* with a stdout sink and expect syscall 1 to print, but the revision of
\* runtime.rs that implements it is not among them; this arm follows the
\* specification: R1 is the start, R2 the length, the slice is appended to
\* the sink, and a slice that leaves the memory is a memory error.
syscall_print(this) ==
    LET start  == read_register_value(this, R1)
        length == read_register_value(this, R2)
    IN  IF range_in_bounds(start, length)
        THEN [this EXCEPT !.stdout =
                 @ \o [i \in 1 .. usize(length) |->
                          byte_at(this.memory, usize(start) + i - 1)]]
        ELSE write_error(this, Error_Memory)

\* a faulty dispatch that also stops the VM on an unknown syscall number
syscall_stopping_on_unknown(this, number) ==
    IF number = <<0, 0>> THEN [this EXCEPT !.running = FALSE]
    ELSE IF number = <<0, 1>> THEN syscall_print(this)
    ELSE write_register_value([this EXCEPT !.running = FALSE], ERR, u32(Error_Syscall))

\* runtime.rs dispatches 0 (halt) and refuses the rest; 1 is the print
\* syscall above
syscall(this, number) ==
    IF number = <<0, 0>> THEN [this EXCEPT !.running = FALSE]
    ELSE IF number = <<0, 1>> THEN syscall_print(this)
    ELSE write_register_value(this, ERR, u32(Error_Syscall))

\* a faulty division closure that yields 0 for a zero divisor without an error
divide_without_error(this, x, y) ==
    [this |-> this, result |-> IF y = <<0, 0>> THEN <<0, 0>> ELSE unsigned_div(x, y)]

\* the closure of DIV and DIVI
divide(this, x, y) ==
    IF y = <<0, 0>>
    THEN [this |-> write_error(this, Error_DivisorNotZero), result |-> <<0, 0>>]
    ELSE [this |-> this, result |-> unsigned_div(x, y)]

\* faulty closures whose addition saturates instead of wrapping
binary_op_saturating_add(opcode, this, x, y) ==
    CASE opcode \in {ADD, ADDI} ->
            [this |-> this,
             result |-> IF Lt(wrapping_add(x, y), x) THEN <<65535, 65535>>
                        ELSE wrapping_add(x, y)]
      [] opcode \in {SUB, SUBI} -> [this |-> this, result |-> wrapping_sub(x, y)]
      [] opcode \in {MUL, MULI} -> [this |-> this, result |-> wrapping_mul(x, y)]
      [] opcode \in {DIV, DIVI} -> divide(this, x, y)
      [] opcode = AND -> [this |-> this, result |-> bitand(x, y)]
      [] opcode = OR -> [this |-> this, result |-> bitor(x, y)]
      [] opcode = XOR -> [this |-> this, result |-> bitxor(x, y)]
      [] opcode \in {SRL, SRLI} -> shift_right(this, x, y)
      [] opcode \in {SLL, SLLI} -> shift_left(this, x, y)

\* the closures interpret_instruction passes to the *_write0 handlers
binary_op(opcode, this, x, y) ==
    CASE opcode \in {ADD, ADDI} -> [this |-> this, result |-> wrapping_add(x, y)]
      [] opcode \in {SUB, SUBI} -> [this |-> this, result |-> wrapping_sub(x, y)]
      [] opcode \in {MUL, MULI} -> [this |-> this, result |-> wrapping_mul(x, y)]
      [] opcode \in {DIV, DIVI} -> divide(this, x, y)
      [] opcode = AND -> [this |-> this, result |-> bitand(x, y)]
      [] opcode = OR -> [this |-> this, result |-> bitor(x, y)]
      [] opcode = XOR -> [this |-> this, result |-> bitxor(x, y)]
      [] opcode \in {SRL, SRLI} -> shift_right(this, x, y)
      [] opcode \in {SLL, SLLI} -> shift_left(this, x, y)

\* the closures interpret_instruction passes to unary_check_write_ip
unary_op(opcode, x) ==
    CASE opcode = JZI -> x = <<0, 0>>
      [] opcode = JNZI -> x # <<0, 0>>
      [] opcode = JLZI -> signed_lt0(x)
      [] opcode = JGZI -> signed_gt0(x)

\* a load's closure body: write the value read, or the memory error
load(this, reg, read) ==
    IF read # None THEN write_user_register_value(this, reg, read[1])
    ELSE write_error(this, Error_Memory)

\* a store's closure body: keep the written memory, or the memory error
store(this, written) ==
    IF written.ok THEN [this EXCEPT !.memory = written.memory]
    ELSE write_error(this, Error_Memory)

widen(read) == IF read = None THEN None ELSE Some(<<0, read[1]>>)

\* a faulty truncation that keeps the upper half of the register
high_u16(value) == value[1]

low_u16(value) == bitand(value, <<0, 65535>>)[2]

low_u8(value) == bitand(value, <<0, 255>>)[2]

\* the closures interpret_instruction passes to binary_register_operation
register_op(opcode, this, reg0, reg1) ==
    LET addr == read_user_register_value(this, reg1)
        val  == read_user_register_value(this, reg0)
    IN  CASE opcode = CPY -> write_user_register_value(this, reg0, addr)
          [] opcode = LW -> load(this, reg0, read_u32(this.memory, addr))
          [] opcode = SW -> store(this, write_u32(this.memory, addr, val))
          [] opcode = LH -> load(this, reg0, widen(read_u16(this.memory, addr)))
          [] opcode = SH -> store(this, write_u16(this.memory, addr, low_u16(val)))
          [] opcode = LB -> load(this, reg0, widen(read_u8(this.memory, addr)))
          [] opcode = SB -> store(this, write_u8(this.memory, addr, low_u8(val)))

\* the closures interpret_instruction passes to
\* binary_register_and_immediate_operation
register_and_immediate_op(opcode, this, reg, imm) ==
    LET val == read_user_register_value(this, reg)
    IN  CASE opcode = LWI -> load(this, reg, read_u32(this.memory, imm))
          [] opcode = SWI -> store(this, write_u32(this.memory, imm, val))
          [] opcode = LHI -> load(this, reg, widen(read_u16(this.memory, imm)))
          [] opcode = SHI -> store(this, write_u16(this.memory, imm, low_u16(val)))
          [] opcode = LBI -> load(this, reg, widen(read_u8(this.memory, imm)))
          [] opcode = SBI -> store(this, write_u8(this.memory, imm, low_u8(val)))

unary_check_write_ip(this, instruction, opcode) ==
    LET reg == get_register_and_immediate(instruction)[1]
        imm == get_register_and_immediate(instruction)[2]
    IN  IF Register_from_u8(reg)
        THEN IF unary_op(opcode, read_user_register_value(this, reg))
             THEN write_register_value(this, IP, wrapping_sub(imm, <<0, 4>>))
             ELSE this
        ELSE write_error(this, Error_Register)

binary_register_and_immediate_operation_write0(this, instruction, opcode) ==
    LET reg == get_register_and_immediate(instruction)[1]
        imm == get_register_and_immediate(instruction)[2]
        op  == binary_op(opcode, this, read_user_register_value(this, reg), imm)
    IN  IF Register_from_u8(reg)
        THEN IF op.this.panicked THEN op.this
             ELSE write_user_register_value(op.this, reg, op.result)
        ELSE write_error(this, Error_Register)

binary_register_and_immediate_operation(this, instruction, opcode) ==
    LET reg == get_register_and_immediate(instruction)[1]
        imm == get_register_and_immediate(instruction)[2]
    IN  IF Register_from_u8(reg)
        THEN register_and_immediate_op(opcode, this, reg, imm)
        ELSE write_error(this, Error_Register)

binary_register_operation_write0(this, instruction, opcode) ==
    LET reg0 == get_two_registers(instruction)[1]
        reg1 == get_two_registers(instruction)[2]
        op   == binary_op(opcode, this, read_user_register_value(this, reg0),
                          read_user_register_value(this, reg1))
    IN  IF Register_from_u8(reg0) /\ Register_from_u8(reg1)
        THEN IF op.this.panicked THEN op.this
             ELSE write_user_register_value(op.this, reg0, op.result)
        ELSE write_error(this, Error_Register)

binary_register_operation(this, instruction, opcode) ==
    LET reg0 == get_two_registers(instruction)[1]
        reg1 == get_two_registers(instruction)[2]
    IN  IF Register_from_u8(reg0) /\ Register_from_u8(reg1)
        THEN register_op(opcode, this, reg0, reg1)
        ELSE write_error(this, Error_Register)

\* the SYSCALLI arm
syscalli(this, instruction) ==
    LET saved == write_next_instruction_address(this)
    IN  IF saved.panicked THEN saved
        ELSE syscall(saved, get_immediate(instruction))

\* a faulty LI arm that skips an unknown register without an error
li_skipping_unknown_register(this, instruction) ==
    LET reg0 == get_register_and_twos_complement_immediate(instruction)[1]
        imm1 == get_register_and_twos_complement_immediate(instruction)[2]
    IN  IF Register_from_u8(reg0) THEN write_user_register_value(this, reg0, imm1)
        ELSE this

\* the LI arm
li(this, instruction) ==
    LET reg0 == get_register_and_twos_complement_immediate(instruction)[1]
        imm1 == get_register_and_twos_complement_immediate(instruction)[2]
    IN  IF Register_from_u8(reg0) THEN write_user_register_value(this, reg0, imm1)
        ELSE write_error(this, Error_Register)

\* a faulty J arm that saves a return address as JIL does
j_saving_return_address(this, instruction) ==
    LET reg == get_registers(instruction)
    IN  IF Register_from_u8(reg)
        THEN write_register_value(
                 write_register_value(this, RA,
                     wrapping_add(read_register_value(this, IP), <<0, 4>>)),
                 IP, wrapping_sub(read_user_register_value(this, reg), <<0, 4>>))
        ELSE write_error(this, Error_Register)

\* the J arm
j(this, instruction) ==
    LET reg == get_registers(instruction)
    IN  IF Register_from_u8(reg)
        THEN write_register_value(this, IP,
                 wrapping_sub(read_user_register_value(this, reg), <<0, 4>>))
        ELSE write_error(this, Error_Register)

\* a faulty JI arm that does not allow for the loop's increment
ji_without_adjustment(this, instruction) ==
    write_register_value(this, IP, get_immediate(instruction))

\* the JI arm
ji(this, instruction) ==
    write_register_value(this, IP, wrapping_sub(get_immediate(instruction), <<0, 4>>))

\* a faulty JIL arm that saves the address of the JIL itself
jil_saving_own_address(this, instruction) ==
    write_register_value(
        write_register_value(this, RA, read_register_value(this, IP)),
        IP, wrapping_sub(get_immediate(instruction), <<0, 4>>))

\* the JIL arm
jil(this, instruction) ==
    write_register_value(
        write_register_value(this, RA, wrapping_add(read_register_value(this, IP), <<0, 4>>)),
        IP, wrapping_sub(get_immediate(instruction), <<0, 4>>))

\* the NOT arm
not(this, instruction) ==
    LET reg == get_registers(instruction)
    IN  IF Register_from_u8(reg)
        THEN write_user_register_value(this, reg, bitnot(read_user_register_value(this, reg)))
        ELSE write_error(this, Error_Register)

\* a faulty unknown-opcode branch that reports nothing
unknown_opcode_ignored(this) == this

\* the branch taken when OpCode::from_u8 is None
unknown_opcode(this) == write_error(this, Error_OpCode)

interpret_instruction(this, instruction) ==
    LET opcode == get_opcode(instruction)
    IN  IF OpCode_from_u8(opcode)
        THEN CASE opcode = SYSCALLI -> syscalli(this, instruction)
               [] opcode \in {CPY, LW, SW, LH, SH, LB, SB} ->
                      binary_register_operation(this, instruction, opcode)
               [] opcode = LI -> li(this, instruction)
               [] opcode \in {LWI, SWI, LHI, SHI, LBI, SBI} ->
                      binary_register_and_immediate_operation(this, instruction, opcode)
               [] opcode \in {ADD, SUB, MUL, DIV, AND, OR, XOR, SRL, SLL} ->
                      binary_register_operation_write0(this, instruction, opcode)
               [] opcode \in {ADDI, SUBI, MULI, DIVI, SRLI, SLLI} ->
                      binary_register_and_immediate_operation_write0(this, instruction, opcode)
               [] opcode = J -> j(this, instruction)
               [] opcode = JI -> ji(this, instruction)
               [] opcode = JIL -> jil(this, instruction)
               [] opcode \in {JZI, JNZI, JLZI, JGZI} ->
                      unary_check_write_ip(this, instruction, opcode)
               [] opcode = NOT -> not(this, instruction)
        ELSE unknown_opcode(this)

(***************************************************************************)
(* The programs and host inputs explored                                   *)
(***************************************************************************)
MaxSteps == 3

TwoRegisterOpCodes ==
    {CPY, LW, SW, LH, SH, LB, SB, ADD, SUB, MUL, DIV, AND, OR, XOR, SRL, SLL}

RegisterAndImmediateOpCodes ==
    {LI, LWI, SWI, LHI, SHI, LBI, SBI, ADDI, SUBI, MULI, DIVI, SRLI, SLLI,
     JZI, JNZI, JLZI, JGZI}

RegisterOpCodes == {NOT, J}

ImmediateOpCodes == {JI, JIL, SYSCALLI}

\* register fields of two-register instructions; 12 and 15 name no register
RegisterPairs ==
    {<<R0, R1>>, <<SP, R1>>, <<RA, R1>>, <<IP, R1>>, <<ERR, R1>>, <<12, R1>>, <<R0, 15>>}

\* register field and 20-bit immediate of register-and-immediate instructions
RegisterImmediates ==
    ({R0} \X {<<0, 0>>, <<0, 3>>, <<0, 8>>, <<0, 32>>, <<15, 65535>>})
        \cup ({IP, ERR, 13} \X {<<0, 0>>, <<0, 8>>})

SingleRegisters == {R0, R1, RA, IP, ERR, 14}

\* 24-bit immediates: 0x400000 is the memory size, 0xFFFFFF the largest
Immediates == {<<0, 0>>, <<0, 1>>, <<0, 8>>, <<64, 0>>, <<255, 65535>>}

\* words whose opcode byte names no instruction
UnknownInstructions == {<<9728, 0>>, <<65280, 0>>, <<65535, 65535>>}

Instructions ==
    {create_instruction_two_registers(op, p[1], p[2]) :
        <<op, p>> \in TwoRegisterOpCodes \X RegisterPairs}
    \cup {create_instruction_register_and_immediate(op, p[1], p[2]) :
        <<op, p>> \in RegisterAndImmediateOpCodes \X RegisterImmediates}
    \cup {create_instruction_register(op, reg) :
        <<op, reg>> \in RegisterOpCodes \X SingleRegisters}
    \cup {create_instruction_immediate(op, imm) :
        <<op, imm>> \in ImmediateOpCodes \X Immediates}
    \cup UnknownInstructions

Programs ==
    {<<i>> : i \in Instructions}
    \cup {<<create_instruction_register_and_immediate(LI, R1, <<0, 32001>>),
            create_instruction_immediate(SYSCALLI, <<0, 0>>)>>,
          <<create_instruction_immediate(JIL, <<0, 8>>),
            create_instruction_immediate(SYSCALLI, <<0, 0>>),
            create_instruction_register(J, RA)>>,
          <<create_instruction_register_and_immediate(LI, R2, <<0, 3>>),
            create_instruction_immediate(SYSCALLI, <<0, 1>>),
            create_instruction_immediate(SYSCALLI, <<0, 0>>)>>}

\* values the host writes into $r0 and $r1 before execute
HostValues ==
    ({R0} \X {<<4660, 22136>>, <<32768, 0>>, <<65535, 65535>>})
    \cup ({R1} \X {<<0, 31>>, <<0, 32>>, wrapping_sub(u32(len), <<0, 4>>),
                   wrapping_sub(u32(len), <<0, 3>>), wrapping_sub(u32(len), <<0, 2>>),
                   wrapping_sub(u32(len), <<0, 1>>), u32(len), <<65535, 65535>>})

\* entry points handed to execute
EntryPoints == {<<0, 0>>, wrapping_sub(u32(len), <<0, 4>>), u32(len)}

(***************************************************************************)
(* The state machine                                                       *)
(***************************************************************************)
VARIABLES
    memory,          \* interpreter.memory
    registers,       \* VirtualMachine.registers
    running,         \* VirtualMachine.running
    overflow_checks, \* whether the build checks arithmetic and shift overflow
    pc,              \* "idle", "loop" (inside execute), "returned", "panicked"
    result,          \* the value execute returned
    steps,           \* iterations of execute's loop so far
    stdout,          \* the bytes written to the caller's stdout sink
    last,            \* the last iteration: word fetched, state before, user writes
    interpreter,     \* the BinaryInterpreter a host built directly: None or Some(memory)
    access,          \* the host's last call of the library API and what it returned
    calls,           \* the number of such calls so far
    source,          \* the ParserResult handed to compile, as the parser left it
    errors,          \* parser_result.errors
    filtered_program_with_pos, \* compile's worklist
    label_map,       \* Compiler.label_map
    image,           \* compile's result: Vec<u8>
    old_len,         \* compile's old_len
    cpc,             \* "idle", "loop", "break" (after the loop), "returned", "panicked"
    returned,        \* what compile returned
    passes,          \* iterations of compile's loop so far
    emitted,         \* the items compiled so far: span, offset, bytes, pass
    token_stream,    \* the tokens the lexer yields for the source text
    lexer,           \* how many tokens lex.next() has returned
    parser_errors,   \* Parser.errors
    parsed_program,  \* parse's program
    loop_pos,        \* parse's pos
    ppc,             \* "idle", "loop" (inside parse), "returned", "panicked"
    iteration,       \* the last iteration of parse's loop: tokens consumed, item
    earlier          \* what an earlier run on the same source gave, if there was one

vm_vars == <<memory, registers, running, overflow_checks, pc, result, steps, stdout, last>>

library_vars == <<interpreter, access, calls>>

compiler_vars ==
    <<source, errors, filtered_program_with_pos, label_map, image, old_len, cpc,
      returned, passes, emitted>>

parser_vars ==
    <<token_stream, lexer, parser_errors, parsed_program, loop_pos, ppc, iteration, earlier>>

vars == <<vm_vars, library_vars, compiler_vars, parser_vars>>

\* parse has not been called
parser_idle ==
    /\ token_stream = <<>>
    /\ lexer = 0
    /\ parser_errors = <<>>
    /\ parsed_program = <<>>
    /\ loop_pos = [start |-> 0, end |-> 0]
    /\ ppc = "idle"
    /\ iteration = [before |-> 0, after |-> 0, items |-> 0, diagnostics |-> 0]
    /\ earlier = <<>>

\* compile has not been called
compiler_idle ==
    /\ source = [program |-> <<>>, errors |-> <<>>]
    /\ errors = <<>>
    /\ filtered_program_with_pos = <<>>
    /\ label_map = <<>>
    /\ image = <<>>
    /\ old_len = 0
    /\ cpc = "idle"
    /\ returned = None
    /\ passes = 0
    /\ emitted = <<>>

\* no host has called the interpreter or the encoders directly
library_idle ==
    /\ interpreter = None
    /\ access = [op |-> "none"]
    /\ calls = 0

self ==
    [registers |-> registers, memory |-> memory, running |-> running,
     overflow_checks |-> overflow_checks, stdout |-> stdout, panicked |-> FALSE,
     wrote |-> <<>>]

\* a faulty constructor that leaves SP at zero
new_without_stack_pointer(length) == [reg \in Registers |-> <<0, 0>>]

\* the registers VirtualMachine::new builds for an interpreter of this length
new(length) == [reg \in Registers |-> IF reg = SP THEN length ELSE <<0, 0>>]

\* VirtualMachine::new(BinaryInterpreter::new_with_program(program))
Init ==
    /\ \E program \in Programs : memory = new_with_program(vec(program))[1]
    /\ registers = new(u32(len))
    /\ running = FALSE
    /\ overflow_checks \in BOOLEAN
    /\ pc = "idle"
    /\ result = <<0, 0>>
    /\ steps = 0
    /\ stdout = <<>>
    /\ last = [instruction |-> None, registers |-> registers, memory |-> memory,
               stdout |-> <<>>, wrote |-> <<>>]
    /\ library_idle
    /\ compiler_idle
    /\ parser_idle

\* the host calls the public write_register_value before it calls execute
host_write_register_value ==
    /\ pc = "idle"
    /\ \E w \in HostValues :
          registers' = write_register_value(self, w[1], w[2]).registers
    /\ UNCHANGED <<memory, running, overflow_checks, pc, result, steps, stdout, last>>
    /\ UNCHANGED <<library_vars, compiler_vars, parser_vars>>

\* execute(pos) up to the loop
execute ==
    /\ pc = "idle"
    /\ \E pos \in EntryPoints :
          registers' = write_register_value(
                           write_register_value(self, IP, pos),
                           ERR, u32(Error_NoError)).registers
    /\ running' = TRUE
    /\ pc' = "loop"
    /\ UNCHANGED <<memory, overflow_checks, result, steps, stdout, last>>
    /\ UNCHANGED <<library_vars, compiler_vars, parser_vars>>

\* a faulty return expression that disregards ERR
return_value_ignoring_error(this) ==
    [this |-> this, result |-> read_register_value(this, R1)]

\* the expression execute returns after the loop
return_value(this) ==
    IF read_register_value(this, ERR) = u32(Error_NoError)
    THEN [this |-> this, result |-> read_register_value(this, R1)]
    ELSE add(this, read_register_value(this, ERR), u32(ERROR_START_NUM))

\* a faulty break condition that overlooks a stopped VM
breaks_on_error_only(this) == read_register_value(this, ERR) # u32(Error_NoError)

\* the condition under which the loop breaks after a handler
breaks(this) ==
    read_register_value(this, ERR) # u32(Error_NoError) \/ ~this.running

\* the VM's fields after a handler, and how execute goes on
finish(this, returns) ==
    LET value == return_value(this)
    IN  /\ registers' = this.registers
        /\ memory' = this.memory
        /\ running' = this.running
        /\ stdout' = this.stdout
        /\ pc' = IF this.panicked \/ (returns /\ value.this.panicked) THEN "panicked"
                 ELSE IF returns THEN "returned" ELSE "loop"
        /\ result' = IF ~this.panicked /\ returns /\ ~value.this.panicked
                     THEN value.result ELSE result

\* one iteration of the loop whose fetch fails: ERR = Memory, break, return
execute_fetch_failed ==
    /\ pc = "loop"
    /\ steps < MaxSteps
    /\ read_u32(memory, read_register_value(self, IP)) = None
    /\ finish(write_register_value(self, ERR, u32(Error_Memory)), TRUE)
    /\ steps' = steps + 1
    /\ last' = [instruction |-> None, registers |-> registers, memory |-> memory,
                stdout |-> stdout, wrote |-> <<>>]
    /\ UNCHANGED overflow_checks
    /\ UNCHANGED <<library_vars, compiler_vars, parser_vars>>

\* one iteration of the loop whose fetch succeeds: interpret the word, then
\* break and return when ERR is set or the VM stopped, else add 4 to IP
execute_instruction ==
    /\ pc = "loop"
    /\ steps < MaxSteps
    /\ read_u32(memory, read_register_value(self, IP)) # None
    /\ LET instruction == read_u32(memory, read_register_value(self, IP))
           after == interpret_instruction(self, instruction[1])
           advanced == write_register_value(after, IP,
                           wrapping_add(read_register_value(after, IP), <<0, 4>>))
       IN  /\ finish(IF after.panicked \/ breaks(after) THEN after ELSE advanced,
                     breaks(after))
           /\ last' = [instruction |-> instruction, registers |-> registers,
                       memory |-> memory, stdout |-> stdout, wrote |-> after.wrote]
    /\ steps' = steps + 1
    /\ UNCHANGED overflow_checks
    /\ UNCHANGED <<library_vars, compiler_vars, parser_vars>>

Next ==
    \/ host_write_register_value
    \/ execute
    \/ execute_fetch_failed
    \/ execute_instruction

Spec == Init /\ [][Next]_vars

(***************************************************************************)
(* Properties.  `last` holds the word the last loop iteration fetched and  *)
(* the registers and memory it started from; the fields of that word are   *)
(* read here by position, independently of the decoders above.             *)
(***************************************************************************)
\* the last loop iteration fetched a word and ran its handler
stepped == steps > 0 /\ last.instruction # None

word == last.instruction[1]

opcode_byte(w) == w[1] \div 256

\* bits 23..20 and bits 3..0, the two register fields
field0(w) == (w[1] \div 16) % 16

field1(w) == w[2] % 16

imm20(w) == <<w[1] % 16, w[2]>>

imm24(w) == <<w[1] % 256, w[2]>>

DefinedOpCodes ==
    TwoRegisterOpCodes \cup RegisterAndImmediateOpCodes \cup RegisterOpCodes
        \cup ImmediateOpCodes

WritableRegisters == {R0, R1, R2, R3, R4, R5, R6, R7, SP, RA}

err == registers[ERR]

registers_kept_except(regs) ==
    \A reg \in Registers \ regs : registers[reg] = last.registers[reg]

\* C1: when execute has returned, its value is R1 if ERR is NoError and
\* 32000 + ERR otherwise, for every program and entry point explored.
C1_ReturnValue ==
    pc = "returned" =>
        IF err = <<0, 0>> THEN result = registers[R1]
        ELSE err[1] = 0 /\ result = <<0, 32000 + err[2]>>

\* an execute that stopped on a memory error returned 32004
C1_Witness ==
    pc = "returned" /\ err = <<0, Error_Memory>> /\ result = <<0, 32004>>

\* whether the fetched word is a jump that is taken from the registers regs
jump_taken(w, regs) ==
    \/ opcode_byte(w) \in {JI, JIL}
    \/ opcode_byte(w) = J /\ field1(w) \in Registers
    \/ /\ opcode_byte(w) \in {JZI, JNZI, JLZI, JGZI}
       /\ field0(w) \in Registers
       /\ CASE opcode_byte(w) = JZI -> regs[field0(w)] = <<0, 0>>
            [] opcode_byte(w) = JNZI -> regs[field0(w)] # <<0, 0>>
            [] opcode_byte(w) = JLZI -> regs[field0(w)][1] >= 32768
            [] opcode_byte(w) = JGZI ->
                   regs[field0(w)][1] < 32768 /\ regs[field0(w)] # <<0, 0>>

jump_target(w, regs) ==
    IF opcode_byte(w) = J THEN regs[field1(w)]
    ELSE IF opcode_byte(w) \in {JI, JIL} THEN imm24(w) ELSE imm20(w)

\* the four outcomes of a step
ip_advanced ==
    ~jump_taken(word, last.registers)
        /\ registers[IP] = wrapping_add(last.registers[IP], <<0, 4>>)

jumped ==
    jump_taken(word, last.registers)
        /\ registers[IP] = jump_target(word, last.registers)

halted == ~running

errored == err # <<0, 0>>

\* C2: after every step that fetched an instruction, exactly one of these
\* holds: IP advanced by 4 (no jump taken), a taken jump set IP to its
\* target, the VM halted (running is false), ERR is non-zero.
C2_ExactlyOneOutcome ==
    stepped =>
        Cardinality({i \in 1 .. 4 :
            <<ip_advanced, jumped, halted, errored>>[i]}) = 1

\* the instructions that write a destination register
WritingOpCodes ==
    {CPY, LI, LW, LH, LB, LWI, LHI, LBI, ADD, SUB, MUL, DIV, ADDI, SUBI, MULI,
     DIVI, AND, OR, XOR, NOT, SRL, SLL, SRLI, SLLI}

destination(w) == IF opcode_byte(w) = NOT THEN field1(w) ELSE field0(w)

LoadStoreOpCodes == {LW, SW, LH, SH, LB, SB, LWI, SWI, LHI, SHI, LBI, SBI}

width(op) ==
    IF op \in {LW, SW, LWI, SWI} THEN 4 ELSE IF op \in {LH, SH, LHI, SHI} THEN 2 ELSE 1

\* the address a load or store uses: the second register, or the immediate
address(w, regs) ==
    IF opcode_byte(w) \in {LW, SW, LH, SH, LB, SB} THEN regs[field1(w)] ELSE imm20(w)

register_fields_valid(w) ==
    IF opcode_byte(w) \in TwoRegisterOpCodes
    THEN field0(w) \in Registers /\ field1(w) \in Registers
    ELSE IF opcode_byte(w) \in RegisterAndImmediateOpCodes THEN field0(w) \in Registers
    ELSE IF opcode_byte(w) \in RegisterOpCodes THEN field1(w) \in Registers
    ELSE TRUE

\* [addr, addr + n) lies within [0, len): addr <= len - n
contained(addr, n) == ~Lt(u32(len - n), addr)

\* C4: a load or store (with valid register fields) leaves ERR = Memory
\* exactly when its byte range [addr, addr + width) is not contained in
\* [0, len); so addr = len - width succeeds and addr = len - width + 1 fails.
C4_MemoryBounds ==
    (stepped /\ opcode_byte(word) \in LoadStoreOpCodes /\ register_fields_valid(word)) =>
        (err = <<0, Error_Memory>>
            <=> ~contained(address(word, last.registers), width(opcode_byte(word))))

\* a halfword store one byte past the last address that fits failed
C4_Witness ==
    /\ stepped
    /\ opcode_byte(word) = SH
    /\ register_fields_valid(word)
    /\ address(word, last.registers) = u32(len - 2 + 1)
    /\ err = <<0, Error_Memory>>
    /\ memory = last.memory

divisor(w, regs) == IF opcode_byte(w) = DIV THEN regs[field1(w)] ELSE imm20(w)

division_outcome(dest) ==
    IF divisor(word, last.registers) = <<0, 0>>
    THEN err = <<0, Error_DivisorNotZero>> /\ registers[dest] = <<0, 0>>
    ELSE /\ err = <<0, Error_NoError>>
         /\ registers[dest] =
                unsigned_div(last.registers[dest], divisor(word, last.registers))

\* C5 as stated: for DIV and DIVI with any destination register, a zero
\* divisor sets ERR = DivisorNotZero and writes 0 to the destination, and a
\* non-zero divisor writes the unsigned quotient and leaves ERR = NoError.
C5_AnyDestination ==
    (stepped /\ opcode_byte(word) \in {DIV, DIVI} /\ register_fields_valid(word)) =>
        division_outcome(field0(word))

\* C5, amended: the same for a destination the program may write (R0..R7,
\* SP, RA); with destination IP or ERR the step sets ERR = ReadonlyRegister
\* and changes no other register, whatever the divisor.
C5_WritableDestination ==
    (stepped /\ opcode_byte(word) \in {DIV, DIVI} /\ register_fields_valid(word)) =>
        IF field0(word) \in WritableRegisters
        THEN division_outcome(field0(word))
        ELSE err = <<0, Error_ReadonlyRegister>> /\ registers_kept_except({ERR})

\* DIV of a non-zero $r0 by a zero register wrote 0 and set DivisorNotZero
C5_Witness ==
    /\ stepped
    /\ opcode_byte(word) = DIV
    /\ field0(word) = R0
    /\ last.registers[R0] # <<0, 0>>
    /\ divisor(word, last.registers) = <<0, 0>>
    /\ registers[R0] = <<0, 0>>
    /\ err = <<0, Error_DivisorNotZero>>

is_syscalli_0(w) == opcode_byte(w) = SYSCALLI /\ imm24(w) = <<0, 0>>

\* Initial is "idle", Running is "loop"; a returned execute is Halted
\* (running false after SYSCALLI 0) or Errored (ERR set, Memory if the
\* fetch failed)
C6_States ==
    /\ pc = "idle" => steps = 0
    /\ pc = "loop" => running /\ err = <<0, 0>>
    /\ pc = "returned" =>
          \/ ~running /\ err = <<0, 0>> /\ stepped /\ is_syscalli_0(word)
          \/ /\ running
             /\ err # <<0, 0>>
             /\ steps > 0
             /\ last.instruction = None => err = <<0, Error_Memory>>

C6_Transitions ==
    /\ pc = "idle" /\ pc' # "idle" => pc' = "loop" /\ running' /\ steps' = 0
    /\ pc = "loop" /\ steps' # steps /\ read_u32(memory, registers[IP]) = None =>
          pc' = "returned" /\ registers'[ERR] = <<0, Error_Memory>>
    /\ pc = "loop" /\ registers'[ERR] # <<0, 0>> => pc' = "returned"
    /\ pc = "loop" /\ ~running' => pc' = "returned"
    /\ pc = "returned" => UNCHANGED vars

\* C6: execution follows Initial -> Running -> (Halted | Errored): execute
\* enters Running; Halted is entered only by SYSCALLI 0; a handler that sets
\* ERR or a failed fetch (ERR = Memory) enters Errored; and after Halted or
\* Errored nothing more is fetched or executed.
C6_StateMachine == []C6_States /\ [][C6_Transitions]_vars

\* an execute ran more than one instruction and was halted by SYSCALLI 0
C6_Witness ==
    pc = "returned" /\ ~running /\ steps > 1 /\ stepped /\ is_syscalli_0(word)

\* C7: no step aborts the host: execute never panics.
C7_NeverPanics == pc # "panicked"

\* C8: whenever execute returns a value >= 32000, ERR is one of 1..6 and the
\* value is 32000 + ERR.
C8_ExitCodeEncodesError ==
    (pc = "returned" /\ Geq(result, <<0, 32000>>)) =>
        err[1] = 0 /\ err[2] \in 1 .. 6 /\ result = <<0, 32000 + err[2]>>

\* C9: a fetched word whose opcode byte names no instruction sets
\* ERR = OpCode and stops, with memory and every register but ERR unchanged.
C9_UnknownOpCode ==
    (stepped /\ opcode_byte(word) \notin DefinedOpCodes) =>
        /\ err = <<0, Error_OpCode>>
        /\ pc = "returned"
        /\ memory = last.memory
        /\ registers_kept_except({ERR})

\* the word 0xFFFFFFFF was fetched and refused
C9_Witness ==
    /\ stepped
    /\ word = <<65535, 65535>>
    /\ err = <<0, Error_OpCode>>
    /\ pc = "returned"

\* C10: a fetched word of a defined instruction with a register field
\* holding 12..15, in either operand position, sets ERR = Register and
\* changes no memory and no register other than ERR.
C10_UnknownRegister ==
    (stepped /\ opcode_byte(word) \in DefinedOpCodes /\ ~register_fields_valid(word)) =>
        /\ err = <<0, Error_Register>>
        /\ memory = last.memory
        /\ registers_kept_except({ERR})

\* a two-register instruction with 15 in its second field was refused
C10_Witness ==
    /\ stepped
    /\ opcode_byte(word) \in TwoRegisterOpCodes
    /\ field0(word) \in Registers
    /\ field1(word) = 15
    /\ err = <<0, Error_Register>>

\* C11: SYSCALLI first writes IP + 4 into RA and then dispatches: 0 halts
\* the VM (running false, ERR NoError, IP still at the syscall, execute
\* returns); a number other than 0 and 1 sets ERR = Syscall, with RA already
\* updated and IP still at the syscall.
C11_Syscall ==
    (stepped /\ opcode_byte(word) = SYSCALLI) =>
        /\ registers[RA] = wrapping_add(last.registers[IP], <<0, 4>>)
        /\ imm24(word) = <<0, 0>> =>
              /\ ~running
              /\ err = <<0, Error_NoError>>
              /\ registers[IP] = last.registers[IP]
              /\ pc = "returned"
        /\ imm24(word) \notin {<<0, 0>>, <<0, 1>>} =>
              /\ running
              /\ err = <<0, Error_Syscall>>
              /\ registers[IP] = last.registers[IP]
              /\ pc = "returned"

\* SYSCALLI 8 at address 0 was refused after RA had become 4
C11_Witness ==
    /\ stepped
    /\ opcode_byte(word) = SYSCALLI
    /\ imm24(word) = <<0, 8>>
    /\ last.registers[RA] = <<0, 0>>
    /\ registers[RA] = <<0, 4>>
    /\ err = <<0, Error_Syscall>>

is_syscalli_1(w) == opcode_byte(w) = SYSCALLI /\ imm24(w) = <<0, 1>>

\* the bytes mem[start .. start + n), in order
slice(mem, start, n) == [i \in 1 .. n |-> byte_at(mem, start + i - 1)]

fresh_registers == [reg \in Registers |-> IF reg = SP THEN u32(len) ELSE <<0, 0>>]

syscalli_0_image == new_with_program(vec(<<<<5888, 0>>>>))[1]

\* the one-word image syscalli 0 was run from entry 0 on a fresh VM
ran_halt_image ==
    /\ pc = "returned"
    /\ steps = 1
    /\ stepped
    /\ last.memory = syscalli_0_image
    /\ last.registers = fresh_registers

C13_AfterHalt ==
    ran_halt_image =>
        /\ result = <<0, 0>>
        /\ registers = [fresh_registers EXCEPT ![RA] = <<0, 4>>]
        /\ memory = syscalli_0_image

\* C13: a freshly constructed VM has every register zero except SP, which is
\* the memory length; running the image `syscalli 0` on it from entry 0
\* returns 0 and leaves IP = 0, RA = 4, SP = memory length, ERR = 0 and
\* R0..R7 = 0.
C13_FreshVM ==
    /\ registers = fresh_registers
    /\ registers[SP] = <<64, 0>>
    /\ ~running
    /\ []C13_AfterHalt

C13_Witness ==
    /\ ran_halt_image
    /\ result = <<0, 0>>
    /\ registers[RA] = <<0, 4>>
    /\ registers[IP] = <<0, 0>>
    /\ registers[SP] = <<64, 0>>

\* the step after a taken jump fetched the word at the jump's target
C14_NextFetch ==
    (pc = "loop" /\ stepped /\ jump_taken(word, last.registers) /\ steps' = steps + 1) =>
        /\ last'.registers[IP] = jump_target(word, last.registers)
        /\ last'.instruction = read_u32(memory, jump_target(word, last.registers))

C14_Landed ==
    (stepped /\ jump_taken(word, last.registers)) =>
        /\ registers[IP] = jump_target(word, last.registers)
        /\ pc = "loop"

\* C14: after a taken jump (J, JI, JIL, or a conditional jump whose predicate
\* holds) IP is exactly the jump target and the next iteration fetches the
\* word at that address, also for the targets 0..3 where target - 4 wraps.
C14_JumpTarget == []C14_Landed /\ [][C14_NextFetch]_vars

\* ji 1 at address 0 was followed by a fetch at address 1
C14_Witness ==
    /\ steps = 2
    /\ stepped
    /\ last.registers[IP] = <<0, 1>>
    /\ last.memory[3] = JI
    /\ last.memory[0] = 1
    /\ word = read_u32(last.memory, <<0, 1>>)[1]

\* C15: JIL writes its own address + 4 into RA and jumps to its immediate;
\* and RA changes in a step only if the step is a JIL, a SYSCALLI or a user
\* write to RA (a failed fetch leaves it too).
C15_ReturnAddress ==
    /\ (stepped /\ opcode_byte(word) = JIL) =>
          /\ registers[RA] = wrapping_add(last.registers[IP], <<0, 4>>)
          /\ registers[IP] = imm24(word)
          /\ registers_kept_except({RA, IP})
    /\ (steps > 0 /\ registers[RA] # last.registers[RA]) =>
          /\ stepped
          /\ \/ opcode_byte(word) \in {JIL, SYSCALLI}
             \/ last.wrote # <<>> /\ last.wrote[1][1] = RA

\* after jil 8 at address 0, the j $ra at address 8 found RA = 4 and went there
C15_Witness ==
    /\ steps = 2
    /\ stepped
    /\ opcode_byte(word) = J
    /\ field1(word) = RA
    /\ last.registers[IP] = <<0, 8>>
    /\ last.registers[RA] = <<0, 4>>
    /\ registers[RA] = <<0, 4>>
    /\ registers[IP] = <<0, 4>>

ConditionalJumps == {JZI, JNZI, JLZI, JGZI}

\* C16: a conditional jump on a register (valid field) sets IP to its
\* immediate exactly when the register is == 0 (JZI), != 0 (JNZI), < 0 (JLZI)
\* or > 0 (JGZI) as a signed 32-bit value, and otherwise falls through to
\* IP + 4; either way no other register, no memory and no error changes.
C16_ConditionalJump ==
    (stepped /\ opcode_byte(word) \in ConditionalJumps /\ field0(word) \in Registers) =>
        /\ registers[IP] =
              IF jump_taken(word, last.registers) THEN imm20(word)
              ELSE wrapping_add(last.registers[IP], <<0, 4>>)
        /\ registers_kept_except({IP})
        /\ memory = last.memory
        /\ pc = "loop"
        /\ last.registers[field0(word)] = <<32768, 0>> =>
              jump_taken(word, last.registers) = (opcode_byte(word) \in {JNZI, JLZI})

\* jlzi $r0, 8 with $r0 = 0x80000000 jumped to 8
C16_Witness ==
    /\ stepped
    /\ opcode_byte(word) = JLZI
    /\ field0(word) = R0
    /\ last.registers[R0] = <<32768, 0>>
    /\ imm20(word) = <<0, 8>>
    /\ registers[IP] = <<0, 8>>

\* the 20-bit immediate sign-extended to 32 bits: bit 19 set fills the upper
\* 12 bits with ones
sign_extended20(imm) == IF imm[1] >= 8 THEN <<65520 + imm[1], imm[2]>> ELSE imm

\* C17: LI loads its 20-bit immediate sign-extended (an encoded -1 loads
\* 0xFFFFFFFF); the other register-and-immediate instructions use theirs
\* zero-extended (as the operand of ADDI, SUBI, MULI, DIVI, as the address of
\* LWI..SBI, which is therefore always inside the memory, as the target of a
\* taken conditional jump); JI and JIL use their 24-bit immediate
\* zero-extended as the target.
C17_Immediates ==
    (stepped /\ register_fields_valid(word)) =>
        /\ (opcode_byte(word) = LI /\ field0(word) \in WritableRegisters) =>
              registers[field0(word)] = sign_extended20(imm20(word))
        /\ (opcode_byte(word) \in {ADDI, SUBI, MULI} /\ field0(word) \in WritableRegisters) =>
              registers[field0(word)] =
                  CASE opcode_byte(word) = ADDI ->
                           wrapping_add(last.registers[field0(word)], imm20(word))
                    [] opcode_byte(word) = SUBI ->
                           wrapping_sub(last.registers[field0(word)], imm20(word))
                    [] opcode_byte(word) = MULI ->
                           wrapping_mul(last.registers[field0(word)], imm20(word))
        /\ (opcode_byte(word) = DIVI /\ field0(word) \in WritableRegisters
               /\ imm20(word) # <<0, 0>>) =>
              registers[field0(word)] =
                  unsigned_div(last.registers[field0(word)], imm20(word))
        /\ opcode_byte(word) \in {LWI, SWI, LHI, SHI, LBI, SBI} =>
              err # <<0, Error_Memory>>
        /\ (opcode_byte(word) \in ConditionalJumps /\ jump_taken(word, last.registers)) =>
              registers[IP] = imm20(word)
        /\ opcode_byte(word) \in {JI, JIL} => registers[IP] = imm24(word)

\* li $r0 with the immediate 0xFFFFF loaded 0xFFFFFFFF
C17_Witness ==
    /\ stepped
    /\ opcode_byte(word) = LI
    /\ field0(word) = R0
    /\ imm20(word) = <<15, 65535>>
    /\ registers[R0] = <<65535, 65535>>

ArithmeticOpCodes == {ADD, SUB, MUL, ADDI, SUBI, MULI}

\* the second operand: the second register, or the zero-extended immediate
operand(w, regs) ==
    IF opcode_byte(w) \in TwoRegisterOpCodes THEN regs[field1(w)] ELSE imm20(w)

\* C18: ADD, SUB, MUL, ADDI, SUBI and MULI (valid register fields, a
\* destination the program may write) leave in the first register the sum,
\* difference or product modulo 2^32 and raise no error, whatever the
\* operands; 0xFFFFFFFF + 0xFFFFFFFF is 0xFFFFFFFE, 0 - 0xFFFFFFFF is 1 and
\* 0xFFFFFFFF * 0xFFFFFFFF is 1.
C18_Wrapping ==
    (stepped /\ opcode_byte(word) \in ArithmeticOpCodes /\ register_fields_valid(word)
        /\ field0(word) \in WritableRegisters) =>
        /\ err = <<0, Error_NoError>>
        /\ pc = "loop"
        /\ registers[field0(word)] =
              CASE opcode_byte(word) \in {ADD, ADDI} ->
                       wrapping_add(last.registers[field0(word)], operand(word, last.registers))
                [] opcode_byte(word) \in {SUB, SUBI} ->
                       wrapping_sub(last.registers[field0(word)], operand(word, last.registers))
                [] opcode_byte(word) \in {MUL, MULI} ->
                       wrapping_mul(last.registers[field0(word)], operand(word, last.registers))
        /\ (last.registers[field0(word)] = <<65535, 65535>>
               /\ operand(word, last.registers) = <<65535, 65535>>) =>
              registers[field0(word)] =
                  CASE opcode_byte(word) \in {ADD, ADDI} -> <<65535, 65534>>
                    [] opcode_byte(word) \in {SUB, SUBI} -> <<0, 0>>
                    [] opcode_byte(word) \in {MUL, MULI} -> <<0, 1>>
        /\ (last.registers[field0(word)] = <<0, 0>>
               /\ operand(word, last.registers) = <<65535, 65535>>
               /\ opcode_byte(word) = SUB) =>
              registers[field0(word)] = <<0, 1>>

\* add $r0, $r1 with both 0xFFFFFFFF left 0xFFFFFFFE in $r0
C18_Witness ==
    /\ stepped
    /\ opcode_byte(word) = ADD
    /\ field0(word) = R0
    /\ field1(word) = R1
    /\ last.registers[R0] = <<65535, 65535>>
    /\ last.registers[R1] = <<65535, 65535>>
    /\ registers[R0] = <<65535, 65534>>
    /\ err = <<0, Error_NoError>>

ShiftOpCodes == {SRL, SLL, SRLI, SLLI}

\* C19: SRL, SRLI, SLL and SLLI (valid register fields, a destination the
\* program may write) shift the first register logically by the low five
\* bits of the amount, zero filled, for every amount, and raise no error.
\* The build with overflow checks panics on an amount of 32 or more (C7).
C19_ShiftMasked ==
    (stepped /\ opcode_byte(word) \in ShiftOpCodes /\ register_fields_valid(word)
        /\ field0(word) \in WritableRegisters) =>
        /\ pc # "panicked"
        /\ err = <<0, Error_NoError>>
        /\ registers[field0(word)] =
              IF opcode_byte(word) \in {SRL, SRLI}
              THEN shr(last.registers[field0(word)], operand(word, last.registers)[2] % 32)
              ELSE shl(last.registers[field0(word)], operand(word, last.registers)[2] % 32)

\* the i-th byte (from 0) of the little-endian image of a 32-bit value
le_byte(value, i) ==
    CASE i = 0 -> value[2] % 256
      [] i = 1 -> value[2] \div 256
      [] i = 2 -> value[1] % 256
      [] i = 3 -> value[1] \div 256

\* every address either memory has a byte recorded for, and the n from start
touched(start, n) ==
    DOMAIN memory \cup DOMAIN last.memory \cup (start .. start + n - 1)

\* C20: a halfword or byte load inside the memory (writable destination)
\* leaves the little-endian 16- or 8-bit memory value in the low bits of the
\* destination and zero in all upper bits; a halfword or byte store inside
\* the memory writes the low 16 or 8 bits of the source register to exactly
\* the 2 or 1 bytes at the address and leaves every other byte as it was.
C20_LoadStoreWidth ==
    (stepped /\ register_fields_valid(word)
        /\ opcode_byte(word) \in {LH, LHI, LB, LBI, SH, SHI, SB, SBI}
        /\ contained(address(word, last.registers), width(opcode_byte(word)))) =>
        LET op    == opcode_byte(word)
            start == usize(address(word, last.registers))
            n     == width(op)
        IN  /\ (op \in {LH, LHI} /\ field0(word) \in WritableRegisters) =>
                  registers[field0(word)] =
                      <<0, byte_at(last.memory, start)
                               + (256 * byte_at(last.memory, start + 1))>>
            /\ (op \in {LB, LBI} /\ field0(word) \in WritableRegisters) =>
                  registers[field0(word)] = <<0, byte_at(last.memory, start)>>
            /\ op \in {LH, LHI, LB, LBI} =>
                  \A a \in touched(start, n) : byte_at(memory, a) = byte_at(last.memory, a)
            /\ op \in {SH, SHI, SB, SBI} =>
                  \A a \in touched(start, n) :
                      byte_at(memory, a) =
                          IF a \in start .. start + n - 1
                          THEN le_byte(last.registers[field0(word)], a - start)
                          ELSE byte_at(last.memory, a)

\* shi $r0, 0 with $r0 = 0x12345678 wrote 0x78 0x56 over the first two bytes
\* of the instruction itself and left its other two bytes in place
C20_Witness ==
    /\ stepped
    /\ opcode_byte(word) = SHI
    /\ field0(word) = R0
    /\ imm20(word) = <<0, 0>>
    /\ last.registers[R0] = <<4660, 22136>>
    /\ byte_at(last.memory, 0) = 0
    /\ byte_at(last.memory, 3) = SHI
    /\ byte_at(memory, 0) = 120
    /\ byte_at(memory, 1) = 86
    /\ byte_at(memory, 2) = 0
    /\ byte_at(memory, 3) = SHI

(***************************************************************************)
(* The library called directly: a host builds a BinaryInterpreter with one *)
(* of its constructors, writes its memory through the Interpreter trait    *)
(* and encodes instruction words with utils::create_instruction_*.         *)
(***************************************************************************)
MaxCalls == 2

\* BinaryInterpreter::new: vec![0; BINARY_INTERPRETER_MEM_SIZE]
BinaryInterpreter_new == <<>>

\* the Vecs handed to new_with_initial: empty, six bytes, exactly the memory
\* size, one byte more, a hundred bytes more
InitialMemories ==
    {vec(<<>>), vec(<<1, 2, 3, 4, 10, 100>>),
     [length |-> len, at |-> (1 :> 7) @@ (len :> 9)],
     [length |-> len + 1, at |-> (len + 1 :> 9)],
     [length |-> len + 100, at |-> <<>>]}

\* the slices handed to new_with_program: empty, two words, as many words as
\* fit the memory, one word more, as many words as the memory has bytes, one
\* word more, a hundred words more
LoadedPrograms ==
    {vec(<<>>), vec(<<<<4660, 22136>>, <<0, 1>>>>),
     [length |-> len \div 4, at |-> (len \div 4 :> <<43981, 52719>>)],
     [length |-> (len \div 4) + 1, at |-> ((len \div 4) + 1 :> <<43981, 52719>>)],
     [length |-> len, at |-> (1 :> <<0, 1>>)],
     [length |-> len + 1, at |-> (1 :> <<0, 1>>)],
     [length |-> len + 100, at |-> <<>>]}

AccessPositions ==
    {<<0, 0>>, <<0, 1>>, u32(len - 4), u32(len - 3), u32(len - 2), u32(len - 1),
     u32(len), <<65535, 65535>>}

EncodedRegisters == {R0, R7, SP, ERR}

\* immediates up to and beyond the 20-bit and the 24-bit field
EncodedImmediates ==
    {<<0, 0>>, <<0, 4>>, <<15, 65535>>, <<16, 0>>, <<255, 65535>>, <<256, 0>>,
     <<65535, 65535>>}

host_new ==
    /\ calls < MaxCalls
    /\ interpreter' = Some(BinaryInterpreter_new)
    /\ access' = [op |-> "new"]
    /\ calls' = calls + 1
    /\ UNCHANGED <<vm_vars, compiler_vars, parser_vars>>

host_new_with_initial ==
    /\ calls < MaxCalls
    /\ \E initial_memory \in InitialMemories :
          /\ interpreter' = new_with_initial(initial_memory)
          /\ access' = [op |-> "new_with_initial", argument |-> initial_memory]
    /\ calls' = calls + 1
    /\ UNCHANGED <<vm_vars, compiler_vars, parser_vars>>

host_new_with_program ==
    /\ calls < MaxCalls
    /\ \E program \in LoadedPrograms :
          /\ interpreter' = new_with_program(program)
          /\ access' = [op |-> "new_with_program", argument |-> program]
    /\ calls' = calls + 1
    /\ UNCHANGED <<vm_vars, compiler_vars, parser_vars>>

\* what a write leaves: the memory, and the call with the bool it returned
wrote_memory(op, pos, value, written) ==
    /\ interpreter' = Some(written.memory)
    /\ access' = [op |-> op, pos |-> pos, value |-> value, ok |-> written.ok,
                  before |-> interpreter[1]]
    /\ calls' = calls + 1
    /\ UNCHANGED <<vm_vars, compiler_vars, parser_vars>>

host_write_u32 ==
    /\ calls < MaxCalls
    /\ interpreter # None
    /\ \E pos \in AccessPositions, value \in {<<4660, 22136>>, <<43981, 52719>>} :
          wrote_memory("write_u32", pos, value, write_u32(interpreter[1], pos, value))

host_write_u16 ==
    /\ calls < MaxCalls
    /\ interpreter # None
    /\ \E pos \in AccessPositions, value \in {30230, 43981} :
          wrote_memory("write_u16", pos, value, write_u16(interpreter[1], pos, value))

host_write_u8 ==
    /\ calls < MaxCalls
    /\ interpreter # None
    /\ \E pos \in AccessPositions, value \in {128, 255} :
          wrote_memory("write_u8", pos, value, write_u8(interpreter[1], pos, value))

\* what an encoder leaves: the call with the word it returned
encoded(op, opcode, regs, imm, instruction) ==
    /\ access' = [op |-> op, opcode |-> opcode, regs |-> regs, imm |-> imm,
                  word |-> instruction]
    /\ calls' = calls + 1
    /\ UNCHANGED <<vm_vars, interpreter, compiler_vars, parser_vars>>

host_create_instruction_register ==
    /\ calls < MaxCalls
    /\ \E opcode \in RegisterOpCodes, reg \in EncodedRegisters :
          encoded("create_instruction_register", opcode, <<reg>>, <<0, 0>>,
                  create_instruction_register(opcode, reg))

host_create_instruction_immediate ==
    /\ calls < MaxCalls
    /\ \E opcode \in ImmediateOpCodes, imm \in EncodedImmediates :
          encoded("create_instruction_immediate", opcode, <<>>, imm,
                  create_instruction_immediate(opcode, imm))

host_create_instruction_register_and_immediate ==
    /\ calls < MaxCalls
    /\ \E opcode \in {LI, DIVI, SBI}, reg \in EncodedRegisters, imm \in EncodedImmediates :
          encoded("create_instruction_register_and_immediate", opcode, <<reg>>, imm,
                  create_instruction_register_and_immediate(opcode, reg, imm))

host_create_instruction_two_registers ==
    /\ calls < MaxCalls
    /\ \E opcode \in {CPY, SB, SLL}, reg0 \in EncodedRegisters, reg1 \in EncodedRegisters :
          encoded("create_instruction_two_registers", opcode, <<reg0, reg1>>, <<0, 0>>,
                  create_instruction_two_registers(opcode, reg0, reg1))

\* the VM is not part of these calls
vm_idle ==
    /\ memory = <<>>
    /\ registers = new(u32(len))
    /\ running = FALSE
    /\ overflow_checks = FALSE
    /\ pc = "idle"
    /\ result = <<0, 0>>
    /\ steps = 0
    /\ stdout = <<>>
    /\ last = [instruction |-> None, registers |-> registers, memory |-> memory,
               stdout |-> <<>>, wrote |-> <<>>]

LibraryInit == vm_idle /\ library_idle /\ compiler_idle /\ parser_idle

LibraryNext ==
    \/ host_new
    \/ host_new_with_initial
    \/ host_new_with_program
    \/ host_write_u32
    \/ host_write_u16
    \/ host_write_u8
    \/ host_create_instruction_register
    \/ host_create_instruction_immediate
    \/ host_create_instruction_register_and_immediate
    \/ host_create_instruction_two_registers

LibrarySpec == LibraryInit /\ [][LibraryNext]_vars

\* the memory of the interpreter the host holds
host_memory == interpreter[1]

written == access.op \in {"write_u32", "write_u16", "write_u8"}

access_width == IF access.op = "write_u32" THEN 4 ELSE IF access.op = "write_u16" THEN 2 ELSE 1

\* the value written, as 32 bits
access_value == IF access.op = "write_u32" THEN access.value ELSE <<0, access.value>>

\* every address either memory has a byte recorded for
recorded(mem0, mem1) == DOMAIN mem0 \cup DOMAIN mem1

\* C21: the memory of a new interpreter reads zero; every read succeeds
\* exactly when its range lies in the memory (so at mem_len - width) and
\* returns the bytes there least significant first; a write succeeds exactly
\* when its range lies in the memory; after a successful write the same
\* read returns the value written, byte i of the range is byte i of the
\* value and every byte outside the range is as before; a failed write
\* changes no byte.
C21_Memory ==
    /\ access.op = "new" =>
          \A pos \in AccessPositions :
              /\ contained(pos, 4) => read_u32(host_memory, pos) = Some(<<0, 0>>)
              /\ contained(pos, 1) => read_u8(host_memory, pos) = Some(0)
    /\ interpreter # None =>
          \A pos \in AccessPositions :
              /\ read_u32(host_memory, pos) # None <=> contained(pos, 4)
              /\ read_u16(host_memory, pos) # None <=> contained(pos, 2)
              /\ read_u8(host_memory, pos) # None <=> contained(pos, 1)
              /\ contained(pos, 4) =>
                    read_u32(host_memory, pos) =
                        Some(<<(256 * byte_at(host_memory, usize(pos) + 3))
                                   + byte_at(host_memory, usize(pos) + 2),
                               (256 * byte_at(host_memory, usize(pos) + 1))
                                   + byte_at(host_memory, usize(pos))>>)
              /\ contained(pos, 2) =>
                    read_u16(host_memory, pos) =
                        Some((256 * byte_at(host_memory, usize(pos) + 1))
                                 + byte_at(host_memory, usize(pos)))
              /\ contained(pos, 1) =>
                    read_u8(host_memory, pos) = Some(byte_at(host_memory, usize(pos)))
    /\ written =>
          /\ access.ok <=> contained(access.pos, access_width)
          /\ access.ok =>
                /\ access.op = "write_u32" =>
                      read_u32(host_memory, access.pos) = Some(access.value)
                /\ access.op = "write_u16" =>
                      read_u16(host_memory, access.pos) = Some(access.value)
                /\ \A i \in 0 .. access_width - 1 :
                      read_u8(host_memory, u32(usize(access.pos) + i))
                          = Some(le_byte(access_value, i))
                /\ \A a \in recorded(host_memory, access.before) :
                      a \notin usize(access.pos) .. usize(access.pos) + access_width - 1
                          => byte_at(host_memory, a) = byte_at(access.before, a)
          /\ ~access.ok =>
                \A a \in recorded(host_memory, access.before) :
                    byte_at(host_memory, a) = byte_at(access.before, a)

\* write_u32(mem_len - 4, 0x12345678) succeeded and the last four bytes read
\* 0x78 0x56 0x34 0x12
C21_Witness ==
    /\ access.op = "write_u32"
    /\ access.pos = u32(len - 4)
    /\ access.value = <<4660, 22136>>
    /\ access.ok
    /\ read_u32(host_memory, u32(len - 4)) = Some(<<4660, 22136>>)
    /\ read_u8(host_memory, u32(len - 4)) = Some(120)
    /\ read_u8(host_memory, u32(len - 3)) = Some(86)
    /\ read_u8(host_memory, u32(len - 2)) = Some(52)
    /\ read_u8(host_memory, u32(len - 1)) = Some(18)

\* byte a of the image a loader was handed: element a of the bytes, or byte
\* a % 4 of word a / 4, least significant first
image_byte(a) ==
    IF access.op = "new_with_initial"
    THEN (IF a + 1 \in DOMAIN access.argument.at THEN access.argument.at[a + 1] ELSE 0)
    ELSE (IF (a \div 4) + 1 \in DOMAIN access.argument.at
          THEN le_byte(access.argument.at[(a \div 4) + 1], a % 4) ELSE 0)

image_size ==
    IF access.op = "new_with_initial" THEN access.argument.length
    ELSE 4 * access.argument.length

\* the addresses the image lists a byte for
image_addresses ==
    IF access.op = "new_with_initial" THEN {i - 1 : i \in DOMAIN access.argument.at}
    ELSE UNION {{(4 * (i - 1)) + k : k \in 0 .. 3} : i \in DOMAIN access.argument.at}

\* C22: a loader returns no interpreter whenever the image has more bytes
\* than the memory (new_with_initial over bytes, new_with_program over 32-bit
\* words); otherwise the memory holds the image from byte 0 on, then zeros.
C22_ImageFits ==
    access.op \in {"new_with_initial", "new_with_program"} =>
        IF image_size > len THEN interpreter = None
        ELSE /\ interpreter # None
             /\ \A a \in DOMAIN host_memory \cup image_addresses :
                   byte_at(host_memory, a) = image_byte(a)

EncoderOps ==
    {"create_instruction_register", "create_instruction_immediate",
     "create_instruction_register_and_immediate", "create_instruction_two_registers"}

\* the immediate fits 20 bits, 24 bits
fits20(imm) == imm[1] < 16

fits24(imm) == imm[1] < 256

\* C23: decoding a word built by the matching encoder from an opcode,
\* registers and an immediate that fits the field returns that opcode, those
\* registers and that immediate, for each of the four formats.
C23_RoundTrip ==
    /\ access.op = "create_instruction_register" =>
          /\ get_opcode(access.word) = access.opcode
          /\ get_registers(access.word) = access.regs[1]
    /\ (access.op = "create_instruction_immediate" /\ fits24(access.imm)) =>
          /\ get_opcode(access.word) = access.opcode
          /\ get_immediate(access.word) = access.imm
    /\ (access.op = "create_instruction_register_and_immediate" /\ fits20(access.imm)) =>
          /\ get_opcode(access.word) = access.opcode
          /\ get_register_and_immediate(access.word) = <<access.regs[1], access.imm>>
    /\ access.op = "create_instruction_two_registers" =>
          /\ get_opcode(access.word) = access.opcode
          /\ get_two_registers(access.word) = access.regs

\* sb $err, $sp was encoded as 0x06B00008 and decodes to SB, ERR and SP
C23_Witness ==
    /\ access.op = "create_instruction_two_registers"
    /\ access.opcode = SB
    /\ access.regs = <<ERR, SP>>
    /\ access.word = <<(SB * 256) + (ERR * 16), SP>>
    /\ get_opcode(access.word) = SB
    /\ get_two_registers(access.word) = <<ERR, SP>>

(***************************************************************************)
(* compiler.rs: compile turns a ParserResult into the bytes of the image.  *)
(*                                                                         *)
(* An Expr is a record whose `type` names the variant; an ImmediateExpr    *)
(* likewise.  A ParserExpr is [pos, expr] with pos the span of the item in *)
(* the source text; a string is the sequence of its UTF-8 bytes.           *)
(***************************************************************************)
InstructionRegister(op_code, reg) ==
    [type |-> "InstructionRegister", op_code |-> op_code, reg |-> reg]

InstructionImmediate(op_code, imm) ==
    [type |-> "InstructionImmediate", op_code |-> op_code, imm |-> imm]

InstructionTwoRegisters(op_code, reg0, reg1) ==
    [type |-> "InstructionTwoRegisters", op_code |-> op_code, reg0 |-> reg0, reg1 |-> reg1]

InstructionRegisterAndImmediate(op_code, reg, imm) ==
    [type |-> "InstructionRegisterAndImmediate", op_code |-> op_code, reg |-> reg,
     imm |-> imm]

StoreI32(imm) == [type |-> "StoreI32", imm |-> imm]

StoreStr(string) == [type |-> "StoreStr", string |-> string]

Label(label) == [type |-> "Label", label |-> label]

Error == [type |-> "Error"]

IntExpr(value) == [type |-> "Int", value |-> value]

AddrToLabel(label) == [type |-> "AddrToLabel", label |-> label]

BiOp(type, expr0, expr1) == [type |-> type, expr0 |-> expr0, expr1 |-> expr1]

InstructionExprs ==
    {"InstructionRegister", "InstructionImmediate", "InstructionTwoRegisters",
     "InstructionRegisterAndImmediate"}

\* program.retain(|x| x.expr != Expr::Error())
filter_errors(program) == SelectSeq(program, LAMBDA x : x.expr # Error)

\* a faulty size that counts a trailing NUL after the string
calc_expr_size_with_nul(expr) ==
    CASE expr.type \in InstructionExprs -> 4
      [] expr.type = "StoreI32" -> 4
      [] expr.type = "StoreStr" -> Len(expr.string) + 1
      [] expr.type = "Label" -> 0
      [] expr.type = "Error" -> 0

calc_expr_size(expr) ==
    CASE expr.type \in InstructionExprs -> 4
      [] expr.type = "StoreI32" -> 4
      [] expr.type = "StoreStr" -> Len(expr.string)
      [] expr.type = "Label" -> 0
      [] expr.type = "Error" -> 0

\* the closures handed to interpret_immediate_biop
fn_bi_op(type, x, y) ==
    CASE type = "Add" -> wrapping_add(x, y)
      [] type = "Sub" -> wrapping_sub(x, y)
      [] type = "Mul" -> wrapping_mul(x, y)
      [] type = "Div" -> unsigned_div(x, y)

RECURSIVE interpret_immediate(_, _)
RECURSIVE interpret_immediate_biop(_, _, _, _)
\* Option<u32>, or the panic of u32::wrapping_div with a zero divisor
interpret_immediate(this, expr) ==
    CASE expr.type = "Int" -> [panicked |-> FALSE, value |-> Some(expr.value)]
      [] expr.type = "AddrToLabel" ->
            [panicked |-> FALSE,
             value |-> IF expr.label \in DOMAIN this.label_map
                       THEN Some(this.label_map[expr.label]) ELSE None]
      [] expr.type \in {"Add", "Sub", "Mul", "Div"} ->
            interpret_immediate_biop(this, expr.expr0, expr.expr1, expr.type)

\* result0? and result1? return None early, in this order
interpret_immediate_biop(this, expr0, expr1, type) ==
    LET result0 == interpret_immediate(this, expr0)
        result1 == interpret_immediate(this, expr1)
    IN  IF result0.panicked \/ result0.value = None THEN result0
        ELSE IF result1.panicked \/ result1.value = None THEN result1
        ELSE IF type = "Div" /\ result1.value[1] = <<0, 0>>
        THEN [panicked |-> TRUE, value |-> None]
        ELSE [panicked |-> FALSE,
              value |-> Some(fn_bi_op(type, result0.value[1], result1.value[1]))]

CompileToNone == [type |-> "CompileToNone"]

CompileToError == [type |-> "CompileToError"]

CompileToResult(bytes) == [type |-> "CompileToResult", bytes |-> bytes]

\* an arm of compile_expr that needs its immediate: Some(imm) or CompileToError
with_immediate(this, folded, bytes) ==
    [this |-> this, panicked |-> folded.panicked,
     result |-> IF folded.panicked \/ folded.value = None THEN CompileToError
                ELSE CompileToResult(bytes)]

\* a faulty Label arm that drops the label without recording it
compile_label_without_insert(this, label, prog_pos) ==
    [this |-> this, panicked |-> FALSE, result |-> CompileToNone]

\* the Label arm: self.label_map.insert(label.clone(), prog_pos)
compile_label(this, label, prog_pos) ==
    [this |-> [this EXCEPT !.label_map =
                  [l \in DOMAIN this.label_map \cup {label} |->
                      IF l = label THEN prog_pos ELSE this.label_map[l]]],
     panicked |-> FALSE, result |-> CompileToNone]

\* the compiler after the call, what the call returned, whether it panicked
compile_expr(this, expr, prog_pos) ==
    CASE expr.type = "Label" -> compile_label(this, expr.label, prog_pos)
      [] expr.type = "InstructionTwoRegisters" ->
            [this |-> this, panicked |-> FALSE,
             result |-> CompileToResult(u32_to_le_bytes(
                 create_instruction_two_registers(expr.op_code, expr.reg0, expr.reg1)))]
      [] expr.type = "InstructionRegister" ->
            [this |-> this, panicked |-> FALSE,
             result |-> CompileToResult(u32_to_le_bytes(
                 create_instruction_register(expr.op_code, expr.reg)))]
      [] expr.type = "InstructionRegisterAndImmediate" ->
            LET imm == interpret_immediate(this, expr.imm)
            IN  with_immediate(this, imm, u32_to_le_bytes(
                    create_instruction_register_and_immediate(
                        expr.op_code, expr.reg, imm.value[1])))
      [] expr.type = "InstructionImmediate" ->
            LET imm == interpret_immediate(this, expr.imm)
            IN  with_immediate(this, imm, u32_to_le_bytes(
                    create_instruction_immediate(expr.op_code, imm.value[1])))
      [] expr.type = "StoreI32" ->
            LET imm == interpret_immediate(this, expr.imm)
            IN  with_immediate(this, imm, u32_to_le_bytes(imm.value[1]))
      [] expr.type = "StoreStr" ->
            [this |-> this, panicked |-> FALSE, result |-> CompileToResult(expr.string)]
      [] OTHER -> [this |-> this, panicked |-> FALSE, result |-> CompileToError]

RECURSIVE with_pos(_, _, _)
\* the loop that pairs every item with work_on_storage_pos, the running sum
with_pos(program, i, work_on_storage_pos) ==
    IF i > Len(program) THEN <<>>
    ELSE <<[pos |-> work_on_storage_pos, expr |-> program[i]]>>
             \o with_pos(program, i + 1, work_on_storage_pos + calc_expr_size(program[i].expr))

RECURSIVE sum_of_sizes(_, _)
\* program.iter().map(|expr| calc_expr_size(&expr.expr)).sum()
sum_of_sizes(program, i) ==
    IF i > Len(program) THEN 0
    ELSE calc_expr_size(program[i].expr) + sum_of_sizes(program, i + 1)

\* result.get_mut(pos..pos + bytes.len()).copy_from_slice(bytes)
copy_into(result_bytes, pos, bytes) ==
    [a \in 1 .. Len(result_bytes) |->
        IF a - 1 >= pos /\ a - 1 < pos + Len(bytes) THEN bytes[a - pos]
        ELSE result_bytes[a]]

RECURSIVE retain(_, _, _, _)
\* one filtered_program_with_pos.retain(...): the items in order, each
\* compiled at its position; an item that compiled is dropped (its bytes
\* written to the result), one that did not is kept
retain(state, items, i, pass) ==
    IF i > Len(items) \/ state.panicked THEN state
    ELSE LET expr == items[i]
             expr_result == compile_expr(state.this, expr.expr.expr, u32(expr.pos))
             done(bytes) == [span |-> expr.expr.pos, pos |-> expr.pos, bytes |-> bytes,
                             pass |-> pass]
             after ==
                 CASE expr_result.panicked -> [state EXCEPT !.panicked = TRUE]
                   [] ~expr_result.panicked /\ expr_result.result.type = "CompileToResult" ->
                         [state EXCEPT !.this = expr_result.this,
                                       !.result = copy_into(@, expr.pos, expr_result.result.bytes),
                                       !.emitted = Append(@, done(expr_result.result.bytes))]
                   [] ~expr_result.panicked /\ expr_result.result.type = "CompileToNone" ->
                         [state EXCEPT !.this = expr_result.this,
                                       !.emitted = Append(@, done(<<>>))]
                   [] ~expr_result.panicked /\ expr_result.result.type = "CompileToError" ->
                         [state EXCEPT !.kept = Append(@, expr)]
         IN  retain(after, items, i + 1, pass)

\* a faulty loop condition that gives up after the first pass
break_after_first_pass(old, new_len) == TRUE

\* if old_len == new_len { break }
cannot_reduce(old, new_len) == old = new_len

\* a faulty return that hands out the bytes whatever the diagnostics
return_bytes_always(diagnostics, result_bytes) == Some(result_bytes)

\* if !parser_result.errors.is_empty() { return None } return Some(result)
return_value_of_compile(diagnostics, result_bytes) ==
    IF diagnostics # <<>> THEN None ELSE Some(result_bytes)

(***************************************************************************)
(* compile as a state machine: the layout, then one action per pass of the *)
(* loop, then the diagnostics and the return                               *)
(***************************************************************************)
MaxItems == 3

\* the span of the k-th item of a source text with one item per line
span(k) == [start |-> 10 * (k - 1), end |-> (10 * (k - 1)) + 9]

\* the items a parsed program is drawn from, as parse leaves them
ItemExprs ==
    {Label("a"),
     InstructionRegisterAndImmediate(LI, R1, AddrToLabel("a")),
     InstructionImmediate(JI, AddrToLabel("b")),
     InstructionTwoRegisters(CPY, R1, R4),
     StoreStr(<<72, 105, 10>>),
     StoreI32(BiOp("Add", AddrToLabel("a"), IntExpr(<<0, 1>>))),
     StoreI32(BiOp("Div", IntExpr(<<0, 12>>), IntExpr(<<0, 0>>))),
     InstructionImmediate(JI, IntExpr(<<512, 0>>)),
     InstructionRegisterAndImmediate(LI, R1, IntExpr(<<16, 1>>)),
     Error}

\* the programs of up to MaxItems items, the k-th at span(k)
ParsedPrograms ==
    UNION {{[k \in 1 .. n |-> [pos |-> span(k), expr |-> exprs[k]]] :
                exprs \in [1 .. n -> ItemExprs]} : n \in 0 .. MaxItems}

\* the diagnostics of the lexer and the parser: none, or one
ParserErrors == {<<>>, <<[pos |-> span(1), err_type |-> "ExpectedRegister"]>>}

ParserResults ==
    {[program |-> program, errors |-> diagnostics] :
         program \in ParsedPrograms, diagnostics \in ParserErrors}

CompilerInit ==
    /\ vm_idle
    /\ library_idle
    /\ parser_idle
    /\ source \in ParserResults
    /\ errors = source.errors
    /\ filtered_program_with_pos = <<>>
    /\ label_map = <<>>
    /\ image = <<>>
    /\ old_len = 0
    /\ cpc = "idle"
    /\ returned = None
    /\ passes = 0
    /\ emitted = <<>>

\* compile up to the loop: the errors filtered out, the result zeroed at its
\* full size, every item paired with its position
compile_begin ==
    /\ cpc = "idle"
    /\ LET program == filter_errors(source.program)
           result_size == sum_of_sizes(program, 1)
       IN  /\ image' = [a \in 1 .. result_size |-> 0]
           /\ filtered_program_with_pos' = with_pos(program, 1, 0)
           /\ old_len' = Len(program)
    /\ label_map' = <<>>
    /\ cpc' = "loop"
    /\ UNCHANGED <<source, errors, returned, passes, emitted>>
    /\ UNCHANGED <<vm_vars, library_vars, parser_vars>>

\* one iteration of the loop: a retain over the worklist, then the break
\* when the worklist did not shrink
compile_pass ==
    /\ cpc = "loop"
    /\ LET after == retain([this |-> [label_map |-> label_map], result |-> image,
                            kept |-> <<>>, emitted |-> emitted, panicked |-> FALSE],
                           filtered_program_with_pos, 1, passes + 1)
           new_len == Len(after.kept)
       IN  /\ label_map' = after.this.label_map
           /\ image' = after.result
           /\ emitted' = after.emitted
           /\ filtered_program_with_pos' =
                 IF after.panicked THEN filtered_program_with_pos ELSE after.kept
           /\ cpc' = IF after.panicked THEN "panicked"
                     ELSE IF cannot_reduce(old_len, new_len) THEN "break" ELSE "loop"
           /\ old_len' = IF after.panicked THEN old_len ELSE new_len
    /\ passes' = passes + 1
    /\ UNCHANGED <<source, errors, returned>>
    /\ UNCHANGED <<vm_vars, library_vars, parser_vars>>

\* after the loop: one CannotCompileExpression per item left, then the return
compile_return ==
    /\ cpc = "break"
    /\ errors' = errors \o [i \in 1 .. Len(filtered_program_with_pos) |->
                              [pos |-> filtered_program_with_pos[i].expr.pos,
                               err_type |-> "CannotCompileExpression"]]
    /\ returned' = return_value_of_compile(errors', image)
    /\ cpc' = "returned"
    /\ UNCHANGED <<source, filtered_program_with_pos, label_map, image, old_len, passes,
                   emitted>>
    /\ UNCHANGED <<vm_vars, library_vars, parser_vars>>

CompilerNext ==
    \/ compile_begin
    \/ compile_pass
    \/ compile_return

CompilerSpec == CompilerInit /\ [][CompilerNext]_vars

(***************************************************************************)
(* Properties of compile, stated over the ParserResult it was handed       *)
(* (`source`) independently of the operators above.                        *)
(***************************************************************************)
items == source.program

\* the items compile works on: those that are no parse error
Compiled == {k \in DOMAIN items : items[k].expr.type # "Error"}

index_of(item_span) == (item_span.start \div 10) + 1

\* the compiled size of an item: 4 for an instruction and for .i32, the bytes
\* of the string for .str, 0 for a label
size_of(k) ==
    IF k \notin Compiled \/ items[k].expr.type = "Label" THEN 0
    ELSE IF items[k].expr.type = "StoreStr" THEN Len(items[k].expr.string)
    ELSE 4

RECURSIVE offset_of(_)
\* the sum of the sizes of the items before the k-th
offset_of(k) == IF k = 1 THEN 0 ELSE offset_of(k - 1) + size_of(k - 1)

\* the items that define the label
definitions(name) == {k \in Compiled : items[k].expr = Label(name)}

\* C24: the position of every item on the worklist and of every compiled item
\* is the sum of the sizes of the items before it (parse errors left out);
\* the bytes compiled for an item are as many as its size; a label's value is
\* the offset of an item that defines it; the image is as long as all sizes
\* together; the ranges written for two items do not overlap, so the image
\* holds the bytes of every compiled item at its offset.
C24_Layout ==
    cpc # "idle" =>
        /\ Len(image) = offset_of(Len(items) + 1)
        /\ \A i \in DOMAIN filtered_program_with_pos :
              filtered_program_with_pos[i].pos
                  = offset_of(index_of(filtered_program_with_pos[i].expr.pos))
        /\ \A i \in DOMAIN emitted :
              /\ emitted[i].pos = offset_of(index_of(emitted[i].span))
              /\ Len(emitted[i].bytes) = size_of(index_of(emitted[i].span))
              /\ \A a \in 1 .. Len(emitted[i].bytes) :
                    image[emitted[i].pos + a] = emitted[i].bytes[a]
              /\ \A other \in DOMAIN emitted :
                    i # other =>
                        \/ emitted[i].pos + Len(emitted[i].bytes) <= emitted[other].pos
                        \/ emitted[other].pos + Len(emitted[other].bytes) <= emitted[i].pos
        /\ \A name \in DOMAIN label_map :
              \E k \in definitions(name) : label_map[name] = u32(offset_of(k))

\* .str "Hi\n", then a:, then li $r1, %a compiled to the three bytes of the
\* string followed by li $r1, 3
C24_Witness ==
    /\ cpc = "returned"
    /\ Len(items) = 3
    /\ items[1].expr = StoreStr(<<72, 105, 10>>)
    /\ items[2].expr = Label("a")
    /\ items[3].expr = InstructionRegisterAndImmediate(LI, R1, AddrToLabel("a"))
    /\ label_map["a"] = <<0, 3>>
    /\ returned = Some(<<72, 105, 10, 3, 0, 16, 7>>)

\* the label an item refers to, if it does
referenced(k) ==
    IF items[k].expr.type \in {"InstructionRegisterAndImmediate", "InstructionImmediate"}
           /\ items[k].expr.imm.type = "AddrToLabel"
    THEN {items[k].expr.imm.label}
    ELSE IF items[k].expr.type = "StoreI32" /\ items[k].expr.imm.type = "Add"
    THEN {items[k].expr.imm.expr0.label}
    ELSE {}

\* the bytes of the k-th item when the label it refers to has the value v
\* (below 2^16): the word with the opcode in the top byte, the register in
\* bits 23..20 and v in the immediate, least significant byte first
bytes_with(k, v) ==
    CASE items[k].expr.type = "InstructionRegisterAndImmediate" ->
            <<v % 256, v \div 256, items[k].expr.reg * 16, items[k].expr.op_code>>
      [] items[k].expr.type = "InstructionImmediate" ->
            <<v % 256, v \div 256, 0, items[k].expr.op_code>>
      [] items[k].expr.type = "StoreI32" -> <<(v + 1) % 256, (v + 1) \div 256, 0, 0>>

\* C25: when compile has returned, every item that refers to a label defined
\* once in the program was compiled with the offset of that definition as
\* the label's value, whether the definition stands before or after the
\* item.
C25_OrderInsensitive ==
    cpc = "returned" =>
        \A k \in Compiled : \A name \in referenced(k) : \A d \in definitions(name) :
            definitions(name) = {d} =>
                \E i \in DOMAIN emitted :
                    /\ emitted[i].span = items[k].pos
                    /\ emitted[i].bytes = bytes_with(k, offset_of(d))

\* li $r1, %a followed by a: was compiled in the second pass to li $r1, 4
C25_Witness ==
    /\ cpc = "returned"
    /\ Len(items) = 2
    /\ items[1].expr = InstructionRegisterAndImmediate(LI, R1, AddrToLabel("a"))
    /\ items[2].expr = Label("a")
    /\ \E i \in DOMAIN emitted : emitted[i].span = items[1].pos /\ emitted[i].pass = 2
    /\ returned = Some(<<4, 0, 16, 7>>)

\* the diagnostics compile adds for the items left on the worklist
left_over ==
    [i \in 1 .. Len(filtered_program_with_pos) |->
        [pos |-> filtered_program_with_pos[i].expr.pos,
         err_type |-> "CannotCompileExpression"]]

\* C26: compile is always at its return or at a position with a next step
\* (never stopped anywhere else); its loop runs at most once more than there
\* are items, so the return is reached; it leaves
\* the loop with an empty worklist or after a pass that removed nothing; and
\* then every item left is one CannotCompileExpression at its span, in
\* order, after the parser's diagnostics, and no image is returned if an
\* item is left.  A constant division by zero stops compile in a panic (C29).
C26_Terminates ==
    /\ cpc \in {"idle", "loop", "break", "returned"}
    /\ passes <= Cardinality(Compiled) + 1
    /\ cpc \in {"break", "returned"} =>
          filtered_program_with_pos = <<>> \/ Len(filtered_program_with_pos) = old_len
    /\ cpc = "returned" =>
          /\ errors = source.errors \o left_over
          /\ filtered_program_with_pos # <<>> => returned = None

\* the program defines a label more than once
redefined == \E name \in {"a", "b"} : Cardinality(definitions(name)) > 1

\* C27: when a label is defined more than once compile reports an error and
\* returns no image, and a label's entry in the map is the offset of its
\* first definition, never that of a later one.
C27_UniqueLabels ==
    /\ (cpc = "returned" /\ redefined) => (returned = None /\ errors # source.errors)
    /\ \A name \in DOMAIN label_map : \A d \in definitions(name) :
          (\A e \in definitions(name) : d <= e) => label_map[name] = u32(offset_of(d))

\* the items that refer to a label the program does not define
Unresolved == {k \in Compiled : \E name \in referenced(k) : definitions(name) = {}}

RECURSIVE diagnostics_from(_)
\* one CannotCompileExpression per unresolved item from the k-th on, in order
diagnostics_from(k) ==
    IF k > Len(items) THEN <<>>
    ELSE (IF k \in Unresolved
          THEN <<[pos |-> items[k].pos, err_type |-> "CannotCompileExpression"]>>
          ELSE <<>>) \o diagnostics_from(k + 1)

\* C28: when compile has returned, it returned Some(bytes), the image,
\* exactly when the diagnostic list is empty, and None otherwise; the list
\* is the parser's diagnostics followed by one CannotCompileExpression per
\* item that refers to an undefined label.
C28_SomeIffNoDiagnostics ==
    cpc = "returned" =>
        /\ returned # None <=> errors = <<>>
        /\ returned # None => returned = Some(image)
        /\ errors = source.errors \o diagnostics_from(1)

\* ji %b without b, after a parser diagnostic: both diagnostics, no image
C28_Witness ==
    /\ cpc = "returned"
    /\ Len(items) = 1
    /\ items[1].expr = InstructionImmediate(JI, AddrToLabel("b"))
    /\ Len(source.errors) = 1
    /\ errors = source.errors
                    \o <<[pos |-> span(1), err_type |-> "CannotCompileExpression"]>>
    /\ returned = None

\* the items whose immediate divides by the constant zero
DividingByZero ==
    {k \in Compiled : items[k].expr.type = "StoreI32" /\ items[k].expr.imm.type = "Div"
                          /\ items[k].expr.imm.expr1 = IntExpr(<<0, 0>>)}

\* C29: compile never aborts, and when it has returned, every item that
\* divides by zero is reported as CannotCompileExpression at its span and no
\* image is returned.
C29_DivisionByZero ==
    /\ cpc # "panicked"
    /\ cpc = "returned" =>
          \A k \in DividingByZero :
              /\ returned = None
              /\ \E i \in DOMAIN errors :
                    errors[i] = [pos |-> items[k].pos, err_type |-> "CannotCompileExpression"]

\* the items whose constant immediate does not fit the field of the format
OutOfRange ==
    {k \in Compiled :
        /\ items[k].expr.type \in {"InstructionRegisterAndImmediate", "InstructionImmediate"}
        /\ items[k].expr.imm.type = "Int"
        /\ IF items[k].expr.type = "InstructionImmediate"
           THEN ~fits24(items[k].expr.imm.value) ELSE ~fits20(items[k].expr.imm.value)}

\* C30: when compile has returned, every item whose immediate does not fit
\* its field is reported as CannotCompileExpression and no image is
\* returned; and the four bytes compiled for an instruction always carry its
\* opcode in the top byte and its registers in their fields.
C30_ImmediateRange ==
    /\ cpc = "returned" =>
          \A k \in OutOfRange :
              /\ returned = None
              /\ \E i \in DOMAIN errors :
                    errors[i] = [pos |-> items[k].pos, err_type |-> "CannotCompileExpression"]
    /\ \A i \in DOMAIN emitted :
          LET expr == items[index_of(emitted[i].span)].expr
          IN  /\ expr.type \in InstructionExprs => emitted[i].bytes[4] = expr.op_code
              /\ expr.type = "InstructionRegisterAndImmediate" =>
                    emitted[i].bytes[3] \div 16 = expr.reg
              /\ expr.type = "InstructionTwoRegisters" =>
                    /\ emitted[i].bytes[3] \div 16 = expr.reg0
                    /\ emitted[i].bytes[1] % 16 = expr.reg1

(***************************************************************************)
(* Restarting: the host calls reset on a VM it has built or run            *)
(***************************************************************************)
\* VirtualMachine::reset: every element of the register array becomes zero
reset(this) == [reg \in DOMAIN this.registers |-> <<0, 0>>]

\* the host calls reset before or after an execute; pc "reset" is the VM the
\* call leaves behind
host_reset ==
    /\ pc \in {"idle", "returned"}
    /\ registers' = reset(self)
    /\ pc' = "reset"
    /\ UNCHANGED <<memory, running, overflow_checks, result, steps, stdout, last>>
    /\ UNCHANGED <<library_vars, compiler_vars, parser_vars>>

RestartNext ==
    \/ Next
    \/ host_reset

RestartSpec == Init /\ [][RestartNext]_vars

\* C35: after reset the register file is that of a freshly constructed VM:
\* every register is zero except SP, which holds the memory length.
C35_Reset ==
    pc = "reset" =>
        \A reg \in Registers :
            registers[reg] = IF reg = SP THEN u32(BINARY_INTERPRETER_MEM_SIZE) ELSE <<0, 0>>

(***************************************************************************)
(* What execute leaves behind                                              *)
(***************************************************************************)
ErrorCodes ==
    {Error_NoError, Error_OpCode, Error_Register, Error_Syscall, Error_Memory,
     Error_ReadonlyRegister, Error_DivisorNotZero}

\* C37: when execute has returned, either the VM is halted (running is false
\* and ERR is NoError) or it is errored (ERR is not NoError and running is
\* still true), never both and never neither; and from the call of execute
\* on, ERR holds one of the seven codes 0..6.
C37_ReturnedState ==
    /\ pc = "returned" =>
          LET halt == ~running /\ registers[ERR] = u32(Error_NoError)
              fail == running /\ registers[ERR] # u32(Error_NoError)
          IN  (halt \/ fail) /\ ~(halt /\ fail)
    /\ pc \in {"loop", "returned"} =>
          \E code \in ErrorCodes : registers[ERR] = u32(code)

\* an execute that met an unknown syscall number returned errored, the VM
\* still marked as running
C37_Witness ==
    /\ pc = "returned"
    /\ running
    /\ registers[ERR] = u32(Error_Syscall)
    /\ stepped
    /\ opcode_byte(word) = SYSCALLI

StoreOpCodes == {SW, SH, SB, SWI, SHI, SBI}

\* the registers the instruction word w may change
may_change(w) ==
    {IP, ERR}
        \cup (IF opcode_byte(w) \in WritingOpCodes THEN {destination(w)} ELSE {})
        \cup (IF opcode_byte(w) \in {JIL, SYSCALLI} THEN {RA} ELSE {})

\* C38: one executed instruction changes the memory only if it is one of
\* the six stores, and changes no register other than its destination
\* register, IP, ERR and, for JIL and SYSCALLI, RA; so SP and the source
\* register of a two-register instruction stay as they were unless they are
\* the destination.
C38_Frame ==
    stepped =>
        /\ memory # last.memory => opcode_byte(word) \in StoreOpCodes
        /\ \A reg \in Registers \ may_change(word) :
              registers[reg] = last.registers[reg]
        /\ (opcode_byte(word) \in TwoRegisterOpCodes /\ field1(word) \in Registers
                /\ field1(word) \notin {field0(word), IP, ERR}) =>
              registers[field1(word)] = last.registers[field1(word)]

\* ADD $r0, $r1 changed its destination R0 and left its source R1 and SP alone
C38_Witness ==
    /\ stepped
    /\ opcode_byte(word) = ADD
    /\ field0(word) = R0
    /\ field1(word) = R1
    /\ registers[R0] # last.registers[R0]
    /\ registers[R1] = last.registers[R1]
    /\ registers[R1] # <<0, 0>>
    /\ registers[SP] = u32(BINARY_INTERPRETER_MEM_SIZE)

\* C39: a run without a taken jump terminates.  Every iteration that fetched
\* an instruction and took no jump either ends the run - halted by
\* SYSCALLI 0 or with ERR set - or goes on with IP exactly 4 higher, without
\* wrapping and not beyond the memory length; an iteration whose fetch fails
\* ends the run with ERR = Memory; and a zero word acts as CPY $r0, $r0: it
\* changes nothing but IP and the run goes on.
C39_NoJumpRun ==
    /\ (stepped /\ ~jump_taken(word, last.registers)) =>
          \/ /\ pc = "loop"
             /\ registers[IP] = wrapping_add(last.registers[IP], <<0, 4>>)
             /\ Lt(last.registers[IP], registers[IP])
             /\ ~Lt(u32(BINARY_INTERPRETER_MEM_SIZE), registers[IP])
          \/ /\ pc = "returned"
             /\ \/ ~running /\ is_syscalli_0(word)
                \/ registers[ERR] # u32(Error_NoError)
    /\ (steps > 0 /\ last.instruction = None) =>
          /\ pc = "returned"
          /\ registers[ERR] = u32(Error_Memory)
          /\ registers[IP] = last.registers[IP]
    /\ (stepped /\ word = <<0, 0>>) =>
          /\ pc = "loop"
          /\ memory = last.memory
          /\ registers_kept_except({IP})

\* the labels the program defines
Defined == {name \in {"a", "b"} : definitions(name) # {}}

\* the items on compile's worklist, by their index in the program
worklist ==
    {index_of(filtered_program_with_pos[i].expr.pos) : i \in DOMAIN filtered_program_with_pos}

\* C40: once the first pass of compile's loop has run through, the label map
\* holds exactly the labels the program defines, each bound to the offset of
\* an item that defines it; and once the second pass has run through, the
\* or the loop has ended, the worklist holds exactly the items whose
\* immediate refers to a label that the program defines nowhere.
C40_FixedPoint ==
    /\ (passes >= 1 /\ cpc # "panicked") =>
          /\ DOMAIN label_map = Defined
          /\ \A name \in Defined :
                \E k \in definitions(name) : label_map[name] = u32(offset_of(k))
    /\ ((passes >= 2 \/ cpc \in {"break", "returned"}) /\ cpc # "panicked") =>
          worklist = Unresolved

\* li $r1, %a / a: / ji %b after two passes: a is in the map, the li was
\* compiled in the second pass and the ji, whose label is undefined, is left
C40_Witness ==
    /\ passes = 2
    /\ cpc = "loop"
    /\ Len(items) = 3
    /\ items[1].expr = InstructionRegisterAndImmediate(LI, R1, AddrToLabel("a"))
    /\ items[2].expr = Label("a")
    /\ items[3].expr = InstructionImmediate(JI, AddrToLabel("b"))
    /\ label_map = [name \in {"a"} |-> <<0, 4>>]
    /\ \E i \in DOMAIN emitted : emitted[i].span = items[1].pos /\ emitted[i].pass = 2
    /\ worklist = {3}

(***************************************************************************)
(* The parser.  Its input is what the lexer yields: a sequence of tokens,  *)
(* each with its kind, its slice of the source (the bytes) and its span.   *)
(* `this` is the Parser with the Lexer it reads: the tokens, the number of *)
(* tokens lex.next() has returned (one more than there are once it has     *)
(* returned None), the diagnostics, and whether a call panicked.           *)
(***************************************************************************)
\* the keyword tokens and the opcode parse_expr hands to parse_instruction
KeywordOpCodes ==
    [KwCpy |-> CPY, KwLw |-> LW, KwSw |-> SW, KwLh |-> LH, KwSh |-> SH, KwLb |-> LB,
     KwSb |-> SB, KwLi |-> LI, KwLwI |-> LWI, KwSwI |-> SWI, KwLhI |-> LHI,
     KwShI |-> SHI, KwLbI |-> LBI, KwSbI |-> SBI, KwAdd |-> ADD, KwSub |-> SUB,
     KwMul |-> MUL, KwDiv |-> DIV, KwAddI |-> ADDI, KwSubI |-> SUBI, KwMulI |-> MULI,
     KwDivI |-> DIVI, KwAnd |-> AND, KwOr |-> OR, KwXor |-> XOR, KwSrl |-> SRL,
     KwSll |-> SLL, KwSrli |-> SRLI, KwSlli |-> SLLI, KwNot |-> NOT, KwJ |-> J,
     KwJi |-> JI, KwJil |-> JIL, KwJzi |-> JZI, KwJnzi |-> JNZI, KwJlzi |-> JLZI,
     KwJgzi |-> JGZI, KwSyscalli |-> SYSCALLI]

get_instruction_parse_type(op_code) ==
    IF op_code \in TwoRegisterOpCodes THEN "TwoRegisters"
    ELSE IF op_code \in RegisterAndImmediateOpCodes THEN "RegisterAndImmediate"
    ELSE IF op_code \in RegisterOpCodes THEN "Register"
    ELSE "Immediate"

\* the current token: None once the lexer is exhausted
tok_of(this) ==
    IF this.lex <= Len(this.tokens) THEN Some(this.tokens[this.lex].tok) ELSE None

\* lex.slice()
lex_slice(this) == this.tokens[this.lex].slice

\* lex.span(): the span of the current token, the empty span at the end of
\* the source once the lexer is exhausted
lex_span(this) ==
    IF this.lex <= Len(this.tokens) THEN this.tokens[this.lex].span
    ELSE IF this.tokens = <<>> THEN [start |-> 0, end |-> 0]
    ELSE [start |-> this.tokens[Len(this.tokens)].span.end,
          end |-> this.tokens[Len(this.tokens)].span.end]

combine_range(range0, range1) == [start |-> range0.start, end |-> range1.end]

\* Parser::next: *tok = lex.next()
next(this) ==
    [this EXCEPT !.lex = IF @ <= Len(this.tokens) THEN @ + 1 ELSE @]

\* self.errors.push(ParserError { pos, err_type })
push_error(this, pos, err_type) ==
    [this EXCEPT !.errors = Append(@, [pos |-> pos, err_type |-> err_type])]

RECURSIVE skip_newlines(_)
\* while *tok == Some(Token::NewLine) { self.next(tok, lex) }
skip_newlines(this) ==
    IF tok_of(this) = Some("NewLine") THEN skip_newlines(next(this)) ELSE this

advance_newlines(this) ==
    IF tok_of(this) = None THEN [this |-> this, result |-> TRUE]
    ELSE [this |-> skip_newlines(this), result |-> tok_of(this) = Some("NewLine")]

expect_newline(this) ==
    LET advanced == advance_newlines(this)
    IN  IF ~advanced.result
        THEN [this |-> push_error(advanced.this, lex_span(advanced.this),
                                  "ExpectedValidImmediate"),
              result |-> FALSE]
        ELSE [this |-> advanced.this, result |-> TRUE]

expect_token(this, expect) ==
    IF tok_of(this) # Some(expect)
    THEN [this |-> push_error(this, lex_span(this), "ExpectedToken"), result |-> FALSE]
    ELSE [this |-> this, result |-> TRUE]

eat_token(this, expect) ==
    LET expected == expect_token(this, expect)
    IN  IF expected.result THEN [this |-> next(expected.this), result |-> TRUE]
        ELSE [this |-> expected.this, result |-> FALSE]

\* the names parse_register accepts after the `$`: r0 .. r7, ip, ra, sp, err
RegisterNames ==
    [reg \in {<<114, 48 + n>> : n \in 0 .. 7}
                \cup {<<105, 112>>, <<114, 97>>, <<115, 112>>, <<101, 114, 114>>} |->
        CASE reg = <<105, 112>> -> IP
          [] reg = <<114, 97>> -> RA
          [] reg = <<115, 112>> -> SP
          [] reg = <<101, 114, 114>> -> ERR
          [] OTHER -> R0 + (reg[2] - 48)]

\* lex.slice().get(1..) is the name after the `$`
parse_register(this) ==
    IF tok_of(this) = Some("Reg")
    THEN LET reg == Tail(lex_slice(this))
         IN  IF reg \in DOMAIN RegisterNames
             THEN [this |-> next(this), result |-> Some(RegisterNames[reg])]
             ELSE [this |-> push_error(this, lex_span(this), "ExpectedValidRegister"),
                   result |-> None]
    ELSE [this |-> push_error(this, lex_span(this), "ExpectedRegister"), result |-> None]

RECURSIVE parse_u32(_, _)
\* str::parse::<u32> on the digits of an Int token: Err when the value
\* leaves the u32 range
parse_u32(digits, value) ==
    IF digits = <<>> THEN Some(value)
    ELSE LET low == (value[2] * 10) + (Head(digits) - 48)
             high == (value[1] * 10) + (low \div H16)
         IN  IF high >= H16 THEN None
             ELSE parse_u32(Tail(digits), <<high, low % H16>>)

\* Int: lex.slice().parse().expect(..), which panics on Err; AddrToLabel:
\* lex.slice().get(1..), the name after the `%`
parse_immediate(this) ==
    IF tok_of(this) = None
    THEN [this |-> push_error(this, lex_span(this), "ExpectedImmediate"), result |-> None]
    ELSE IF tok_of(this) = Some("Int")
    THEN LET value == parse_u32(lex_slice(this), <<0, 0>>)
         IN  IF value = None THEN [this |-> panic(this), result |-> None]
             ELSE [this |-> next(this), result |-> Some(IntExpr(value[1]))]
    ELSE IF tok_of(this) = Some("AddrToLabel")
    THEN [this |-> next(this), result |-> Some(AddrToLabel(Tail(lex_slice(this))))]
    ELSE [this |-> push_error(this, lex_span(this), "ExpectedValidImmediate"),
          result |-> None]

\* lex.slice().get(0..(lex.slice().len() - 1)) is the name before the `:`
parse_label(this) ==
    IF tok_of(this) = Some("Label")
    THEN [this |-> next(this),
          result |-> [pos |-> lex_span(this),
                      expr |-> Label(SubSeq(lex_slice(this), 1, Len(lex_slice(this)) - 1))]]
    ELSE [this |-> push_error(this, lex_span(this), "ExpectedLabel"),
          result |-> [pos |-> lex_span(this), expr |-> Error]]

RECURSIVE chars(_)
\* str::chars: the characters of a UTF-8 string, each with its bytes
chars(bytes) ==
    IF bytes = <<>> THEN <<>>
    ELSE LET n == IF Head(bytes) < 128 THEN 1 ELSE IF Head(bytes) < 224 THEN 2
                  ELSE IF Head(bytes) < 240 THEN 3 ELSE 4
         IN  <<SubSeq(bytes, 1, n)>> \o chars(SubSeq(bytes, n + 1, Len(bytes)))

\* the characters an escape sequence stands for: n r t 0 " '
Escapes ==
    [c \in {<<110>>, <<114>>, <<116>>, <<48>>, <<34>>, <<39>>} |->
        CASE c = <<110>> -> <<10>> [] c = <<114>> -> <<13>> [] c = <<116>> -> <<9>>
          [] c = <<48>> -> <<0>> [] c = <<34>> -> <<34>> [] c = <<39>> -> <<39>>]

RECURSIVE unescape(_, _, _, _, _)
\* the loop of parse_immediate_string: i runs up to tokstr.len(), the number
\* of bytes, while tokstr.chars().nth(i) counts characters, and unwrap
\* panics when there is no i-th character
unescape(this, pos, tokstr, i, string) ==
    IF i >= Len(tokstr) THEN [this |-> this, result |-> string]
    ELSE IF i + 1 > Len(chars(tokstr)) THEN [this |-> panic(this), result |-> string]
    ELSE IF chars(tokstr)[i + 1] # <<92>>
    THEN unescape(this, pos, tokstr, i + 1, string \o chars(tokstr)[i + 1])
    ELSE IF i + 2 > Len(chars(tokstr)) THEN [this |-> panic(this), result |-> string]
    ELSE IF chars(tokstr)[i + 2] \in DOMAIN Escapes
    THEN unescape(this, pos, tokstr, i + 2, string \o Escapes[chars(tokstr)[i + 2]])
    ELSE unescape(push_error(this, [start |-> pos.start + i + 1, end |-> pos.start + i + 1],
                             "InvalidEscapeSquence"),
                  pos, tokstr, i + 2, string \o <<63>>)

\* tokstr is the slice of the String token without its quotes
parse_immediate_string(this) ==
    IF tok_of(this) = Some("String")
    THEN LET tokstr == SubSeq(lex_slice(this), 2, Len(lex_slice(this)) - 1)
             unescaped == unescape(this, lex_span(this), tokstr, 0, <<>>)
         IN  [this |-> next(unescaped.this), result |-> Some(unescaped.result)]
    ELSE [this |-> this, result |-> None]

parse_mem_str(this) ==
    LET pos == lex_span(next(this))
        string == parse_immediate_string(next(this))
    IN  IF string.result # None
        THEN [this |-> expect_newline(string.this).this,
              result |-> [pos |-> pos, expr |-> StoreStr(string.result[1])]]
        ELSE [this |-> string.this, result |-> [pos |-> pos, expr |-> Error]]

parse_mem_i32(this) ==
    LET pos == lex_span(next(this))
        expr == parse_immediate(next(this))
    IN  IF expr.result # None
        THEN [this |-> expect_newline(expr.this).this,
              result |-> [pos |-> pos, expr |-> StoreI32(expr.result[1])]]
        ELSE [this |-> expr.this, result |-> [pos |-> pos, expr |-> Error]]

parse_instruction(op_code, this) ==
    LET start == lex_span(this)
        parse_type == get_instruction_parse_type(op_code)
        one_register(end, reg) ==
            [this |-> reg.this,
             result |-> [pos |-> combine_range(start, end),
                         expr |-> IF reg.result # None
                                  THEN InstructionRegister(op_code, reg.result[1])
                                  ELSE Error]]
        one_immediate(end, imm) ==
            [this |-> imm.this,
             result |-> [pos |-> combine_range(start, end),
                         expr |-> IF imm.result # None
                                  THEN InstructionImmediate(op_code, imm.result[1])
                                  ELSE Error]]
        two_registers(reg_raw0, reg_raw1) ==
            [this |-> reg_raw1.this,
             result |-> [pos |-> combine_range(start, lex_span(reg_raw1.this)),
                         expr |-> IF reg_raw0.result # None /\ reg_raw1.result # None
                                  THEN InstructionTwoRegisters(
                                           op_code, reg_raw0.result[1], reg_raw1.result[1])
                                  ELSE Error]]
        register_and_immediate(reg_raw, imm_raw) ==
            [this |-> imm_raw.this,
             result |-> [pos |-> combine_range(start, lex_span(imm_raw.this)),
                         expr |-> IF reg_raw.result # None /\ imm_raw.result # None
                                  THEN InstructionRegisterAndImmediate(
                                           op_code, reg_raw.result[1], imm_raw.result[1])
                                  ELSE Error]]
        \* the operand after the first register and the comma
        then_register(reg_raw0) ==
            two_registers(reg_raw0, parse_register(eat_token(reg_raw0.this, "Comma").this))
        then_immediate(reg_raw) ==
            register_and_immediate(
                reg_raw, parse_immediate(eat_token(reg_raw.this, "Comma").this))
        \* self.expect_newline after the operands
        line_end(parsed, newline) ==
            IF ~newline.result
            THEN [this |-> newline.this,
                  result |-> [pos |-> combine_range(start, lex_span(newline.this)),
                              expr |-> Error]]
            ELSE [this |-> newline.this, result |-> parsed.result]
        operands(parsed) == line_end(parsed, expect_newline(parsed.this))
    IN  operands(
            CASE parse_type = "Register" ->
                    one_register(lex_span(next(this)), parse_register(next(this)))
              [] parse_type = "Immediate" ->
                    one_immediate(lex_span(next(this)), parse_immediate(next(this)))
              [] parse_type = "TwoRegisters" -> then_register(parse_register(next(this)))
              [] parse_type = "RegisterAndImmediate" ->
                    then_immediate(parse_register(next(this))))

\* Option<ParserExpr>: None at the end of the tokens
parse_expr(this) ==
    LET current == advance_newlines(this).this
        some(parsed) == [this |-> parsed.this, result |-> Some(parsed.result)]
    IN  IF tok_of(current) = None THEN [this |-> current, result |-> None]
        ELSE LET tok == tok_of(current)[1]
             IN  IF tok \in DOMAIN KeywordOpCodes
                 THEN some(parse_instruction(KeywordOpCodes[tok], current))
                 ELSE IF tok = "Label" THEN some(parse_label(current))
                 ELSE IF tok = "KwMemI32" THEN some(parse_mem_i32(current))
                 ELSE IF tok = "KwMemStr" THEN some(parse_mem_str(current))
                 ELSE [this |-> current,
                       result |-> Some([pos |-> lex_span(current), expr |-> Error])]

(***************************************************************************)
(* The source texts explored, as the lexer tokenises them, and parse and   *)
(* compile run one after the other on them as parse_and_compile_str does   *)
(***************************************************************************)
MaxLines == 2

token(tok, lexeme) == [tok |-> tok, slice |-> lexeme]

\* $r1, $r4 and $rx, which names no register
Reg(digit) == token("Reg", <<36, 114, digit>>)

Comma == token("Comma", <<44>>)

\* the lines a source text is made of:
\*   cpy $r1, $r4      li $r1, 4      ji %a      a:      .str "Hi\n"
\*   ,      5      $r1      "Hi"      %a   (a line that is no item)
\*   .i32 4294967296      j $rx      .str "é"      cpy $r1 $r4
SourceLines ==
    {<<token("KwCpy", <<99, 112, 121>>), Reg(49), Comma, Reg(52)>>,
     <<token("KwLi", <<108, 105>>), Reg(49), Comma, token("Int", <<52>>)>>,
     <<token("KwJi", <<106, 105>>), token("AddrToLabel", <<37, 97>>)>>,
     <<token("Label", <<97, 58>>)>>,
     <<token("KwMemStr", <<46, 115, 116, 114>>),
       token("String", <<34, 72, 105, 92, 110, 34>>)>>,
     <<Comma>>,
     <<token("Int", <<53>>)>>,
     <<Reg(49)>>,
     <<token("String", <<34, 72, 105, 34>>)>>,
     <<token("AddrToLabel", <<37, 97>>)>>,
     <<token("KwMemI32", <<46, 105, 51, 50>>),
       token("Int", <<52, 50, 57, 52, 57, 54, 55, 50, 57, 54>>)>>,
     <<token("KwJ", <<106>>), Reg(120)>>,
     <<token("KwMemStr", <<46, 115, 116, 114>>), token("String", <<34, 195, 169, 34>>)>>,
     <<token("KwCpy", <<99, 112, 121>>), Reg(49), Reg(52)>>}

\* what stands between two lines: a line break, or nothing but blanks
Separators == {<<token("NewLine", <<10>>)>>, <<>>}

RECURSIVE Joined(_)
\* the token sequences of n lines
Joined(n) ==
    IF n = 1 THEN SourceLines
    ELSE {text \o separator \o line :
             text \in Joined(n - 1), separator \in Separators, line \in SourceLines}

\* the k-th token of the text stands at bytes 4 (k - 1) .. 4 (k - 1) + 3
Lexed(text) ==
    [k \in DOMAIN text |->
        [tok |-> text[k].tok, slice |-> text[k].slice,
         span |-> [start |-> 4 * (k - 1), end |-> (4 * (k - 1)) + 3]]]

TokenStreams == {Lexed(text) : text \in {<<>>} \cup UNION {Joined(n) : n \in 1 .. MaxLines}}

\* a faulty construction that starts from the diagnostics of the run before
Parser_reused(tokens) ==
    [tokens |-> tokens, lex |-> 0, errors |-> parser_errors, panicked |-> FALSE]

\* Token::lexer(program) and Parser { errors: Vec::new() }
Parser_new(tokens) == [tokens |-> tokens, lex |-> 0, errors |-> <<>>, panicked |-> FALSE]

parser_self ==
    [tokens |-> token_stream, lex |-> lexer, errors |-> parser_errors, panicked |-> FALSE]

AssemblerInit ==
    /\ vm_idle
    /\ library_idle
    /\ compiler_idle
    /\ token_stream \in TokenStreams
    /\ lexer = 0
    /\ parser_errors = <<>>
    /\ parsed_program = <<>>
    /\ loop_pos = [start |-> 0, end |-> 0]
    /\ ppc = "idle"
    /\ iteration = [before |-> 0, after |-> 0, items |-> 0, diagnostics |-> 0]
    /\ earlier = None

\* parse up to the loop: the first lex.next() and pos = lex.span()
parse_begin ==
    /\ ppc = "idle"
    /\ LET this == next(Parser_new(token_stream))
       IN  /\ lexer' = this.lex
           /\ parser_errors' = this.errors
           /\ loop_pos' = lex_span(this)
    /\ parsed_program' = <<>>
    /\ iteration' = [before |-> 0, after |-> 0, items |-> 0, diagnostics |-> 0]
    /\ ppc' = "loop"
    /\ UNCHANGED <<token_stream, earlier>>
    /\ UNCHANGED <<vm_vars, library_vars, compiler_vars>>

\* one iteration of the loop: parse_expr yields an item, the item is pushed,
\* and a token is skipped when the span is the one the iteration before saw
parse_iteration ==
    /\ ppc = "loop"
    /\ \E parsed \in {parse_expr(parser_self)} :
       \E new_pos \in {lex_span(parsed.this)} :
       \E after \in {IF new_pos = loop_pos THEN next(parsed.this) ELSE parsed.this} :
           /\ parsed.this.panicked \/ parsed.result # None
           /\ IF parsed.this.panicked
              THEN /\ ppc' = "panicked"
                   /\ UNCHANGED <<lexer, parser_errors, parsed_program, loop_pos, iteration>>
              ELSE /\ ppc' = "loop"
                   /\ parsed_program' = Append(parsed_program, parsed.result[1])
                   /\ lexer' = after.lex
                   /\ parser_errors' = after.errors
                   /\ loop_pos' = new_pos
                   /\ iteration' = [before |-> lexer, after |-> after.lex,
                                    items |-> Len(parsed_program) + 1,
                                    diagnostics |-> Len(parser_errors)]
    /\ UNCHANGED <<token_stream, earlier>>
    /\ UNCHANGED <<vm_vars, library_vars, compiler_vars>>

\* parse_expr yields None: the loop ends and parse returns the ParserResult,
\* which parse_and_compile_str hands to compile
parse_return ==
    /\ ppc = "loop"
    /\ LET parsed == parse_expr(parser_self)
       IN  /\ ~parsed.this.panicked
           /\ parsed.result = None
           /\ lexer' = parsed.this.lex
    /\ ppc' = "returned"
    /\ source' = [program |-> parsed_program, errors |-> parser_errors]
    /\ errors' = parser_errors
    /\ UNCHANGED <<token_stream, parser_errors, parsed_program, loop_pos, iteration, earlier>>
    /\ UNCHANGED <<filtered_program_with_pos, label_map, image, old_len, cpc, returned,
                   passes, emitted>>
    /\ UNCHANGED <<vm_vars, library_vars>>

\* compile called on what parse returned
parse_and_compile_str ==
    /\ ppc = "returned"
    /\ CompilerNext

\* the same source text is assembled once more, in the memory the earlier
\* run left behind
assemble_again ==
    /\ ppc = "returned"
    /\ cpc = "returned"
    /\ earlier = None
    /\ earlier' = Some([image |-> returned, errors |-> errors])
    /\ ppc' = "idle"
    /\ cpc' = "idle"
    /\ passes' = 0
    /\ emitted' = <<>>
    /\ UNCHANGED <<token_stream, lexer, parser_errors, parsed_program, loop_pos, iteration>>
    /\ UNCHANGED <<source, errors, filtered_program_with_pos, label_map, image, old_len,
                   returned>>
    /\ UNCHANGED <<vm_vars, library_vars>>

AssemblerNext ==
    \/ parse_begin
    \/ parse_iteration
    \/ parse_return
    \/ parse_and_compile_str
    \/ assemble_again

AssemblerSpec == AssemblerInit /\ [][AssemblerNext]_vars

(***************************************************************************)
(* Properties of parse and of parse followed by compile                    *)
(***************************************************************************)
\* the item the last iteration of parse's loop pushed
pushed == parsed_program[iteration.items]

\* C32: parse never aborts; every iteration of its loop consumes at least
\* one token; an iteration that pushes an error item records a diagnostic;
\* and parse returns only when the lexer is exhausted.
C32_Recovers ==
    /\ ppc # "panicked"
    /\ (ppc \in {"loop", "returned"} /\ iteration.items > 0) =>
          /\ iteration.after > iteration.before
          /\ pushed.expr = Error => Len(parser_errors) > iteration.diagnostics
    /\ ppc = "returned" => lexer = Len(token_stream) + 1

\* whether the digits of a decimal literal denote more than 4294967295
exceeds_u32(digits) ==
    \/ Len(digits) > 10
    \/ /\ Len(digits) = 10
       /\ \E i \in 1 .. 10 :
             /\ digits[i] > <<52, 50, 57, 52, 57, 54, 55, 50, 57, 53>>[i]
             /\ \A h \in 1 .. i - 1 :
                   digits[h] = <<52, 50, 57, 52, 57, 54, 55, 50, 57, 53>>[h]

\* the tokens that are decimal literals beyond the u32 range
TooLarge ==
    {k \in DOMAIN token_stream :
        token_stream[k].tok = "Int" /\ exceeds_u32(token_stream[k].slice)}

\* C33: for a source with a decimal literal above 2^32 - 1, parse does not
\* abort, it returns with a diagnostic, and compile returns no image.
C33_DecimalOverflow ==
    TooLarge # {} =>
        /\ ppc # "panicked"
        /\ ppc = "returned" => parser_errors # <<>>
        /\ (ppc = "returned" /\ cpc = "returned") => returned = None

C36_ErrorItemsReported ==
    /\ (ppc \in {"loop", "returned"}
            /\ \E k \in DOMAIN parsed_program : parsed_program[k].expr = Error) =>
          parser_errors # <<>>
    /\ (ppc = "returned" /\ cpc = "returned"
            /\ \E k \in DOMAIN source.program : source.program[k].expr = Error) =>
          returned = None

(***************************************************************************)
(* Immediate expressions.  The compiler folds the operators of             *)
(* ImmediateExpr and its tests assemble `.i32 1 + 2 * 3`, but the          *)
(* parse_immediate among the sources accepts a single Int or label         *)
(* reference only.  The parser of expressions below follows the            *)
(* specification: `*` and `/` bind tighter than `+` and `-`, operators of  *)
(* one tier associate to the left, parentheses override.                   *)
(***************************************************************************)
\* a faulty table with all four operators in one tier
OperatorTiers_flat ==
    <<[OpAdd |-> "Add", OpSub |-> "Sub", OpMul |-> "Mul", OpDiv |-> "Div"], <<>>>>

\* the operator tokens of the two tiers, loosest first, and the ImmediateExpr
\* each builds
OperatorTiers ==
    <<[OpAdd |-> "Add", OpSub |-> "Sub"], [OpMul |-> "Mul", OpDiv |-> "Div"]>>

RECURSIVE parse_immediate_operand(_, _)
RECURSIVE parse_immediate_operators(_, _, _)
\* an operand of the operators of tier `tier`: a whole expression of the
\* next tier, and past the last tier an Int, a label reference or an
\* expression in parentheses
parse_immediate_operand(this, tier) ==
    IF tier <= Len(OperatorTiers)
    THEN LET first == parse_immediate_operand(this, tier + 1)
         IN  IF first.result = None THEN first
             ELSE parse_immediate_operators(first.this, tier, first.result[1])
    ELSE IF tok_of(this) = Some("OpOpenBracket")
    THEN LET inner == parse_immediate_operand(next(this), 1)
             closing == eat_token(inner.this, "OpCloseBracket")
         IN  IF inner.result = None THEN inner
             ELSE IF closing.result THEN [this |-> closing.this, result |-> inner.result]
             ELSE [this |-> closing.this, result |-> None]
    ELSE parse_immediate(this)

\* the operators of the tier that follow the operand `left`, left to right
parse_immediate_operators(this, tier, left) ==
    IF tok_of(this) # None /\ tok_of(this)[1] \in DOMAIN OperatorTiers[tier]
    THEN LET right == parse_immediate_operand(next(this), tier + 1)
         IN  IF right.result = None THEN right
             ELSE parse_immediate_operators(
                      right.this, tier,
                      BiOp(OperatorTiers[tier][tok_of(this)[1]], left, right.result[1]))
    ELSE [this |-> this, result |-> Some(left)]

\* the literals and operators the expressions explored are made of
Literals ==
    {token("Int", <<49>>), token("Int", <<50>>), token("Int", <<51>>), token("Int", <<52>>),
     token("Int", <<52, 50, 57, 52, 57, 54, 55, 50, 57, 53>>)}

OperatorTokens ==
    {token("OpAdd", <<43>>), token("OpSub", <<45>>), token("OpMul", <<42>>),
     token("OpDiv", <<47>>)}

\* `.i32 a + b * c`, `.i32 (a + b) * c` and `.i32 a + (b * c)` for all
\* literals a, b, c and all pairs of operators
ExpressionLines ==
    {<<token("KwMemI32", <<46, 105, 51, 50>>)>> \o text :
        text \in UNION {
            {<<a, op1, b, op2, c>>,
             <<token("OpOpenBracket", <<40>>), a, op1, b, token("OpCloseBracket", <<41>>),
               op2, c>>,
             <<a, op1, token("OpOpenBracket", <<40>>), b, op2, c,
               token("OpCloseBracket", <<41>>)>>} :
                a \in Literals, b \in Literals, c \in Literals,
                op1 \in OperatorTokens, op2 \in OperatorTokens}}

ExpressionInit ==
    /\ vm_idle
    /\ library_idle
    /\ compiler_idle
    /\ token_stream \in {Lexed(text) : text \in ExpressionLines}
    /\ lexer = 0
    /\ parser_errors = <<>>
    /\ parsed_program = <<>>
    /\ loop_pos = [start |-> 0, end |-> 0]
    /\ ppc = "idle"
    /\ iteration = [before |-> 0, after |-> 0, items |-> 0, diagnostics |-> 0]
    /\ earlier = None

\* parse on a `.i32` line: the item of parse_mem_i32 with the expression in
\* the place of the single immediate, and the ParserResult parse returns
parse_expression_line ==
    /\ ppc = "idle"
    /\ LET this == next(next(Parser_new(token_stream)))
           expr == parse_immediate_operand(this, 1)
           after == IF expr.result # None THEN expect_newline(expr.this).this
                    ELSE expr.this
           item == [pos |-> lex_span(this),
                    expr |-> IF expr.result # None THEN StoreI32(expr.result[1]) ELSE Error]
       IN  /\ lexer' = after.lex
           /\ parser_errors' = after.errors
           /\ parsed_program' = <<item>>
           /\ source' = [program |-> <<item>>, errors |-> after.errors]
           /\ errors' = after.errors
           /\ ppc' = IF after.panicked THEN "panicked" ELSE "returned"
    /\ UNCHANGED <<token_stream, loop_pos, iteration, earlier>>
    /\ UNCHANGED <<filtered_program_with_pos, label_map, image, old_len, cpc, returned,
                   passes, emitted>>
    /\ UNCHANGED <<vm_vars, library_vars>>

ExpressionNext ==
    \/ parse_expression_line
    \/ parse_and_compile_str

ExpressionSpec == ExpressionInit /\ [][ExpressionNext]_vars

\* the value of the literal that is the k-th token
literal(k) ==
    CASE token_stream[k].slice = <<49>> -> <<0, 1>>
      [] token_stream[k].slice = <<50>> -> <<0, 2>>
      [] token_stream[k].slice = <<51>> -> <<0, 3>>
      [] token_stream[k].slice = <<52>> -> <<0, 4>>
      [] OTHER -> <<65535, 65535>>

\* x op y in wrapping 32-bit arithmetic, op being the k-th token; a
\* division by zero has no value
applied(k, x, y) ==
    IF ~x.defined \/ ~y.defined \/ (token_stream[k].tok = "OpDiv" /\ y.value = <<0, 0>>)
    THEN [defined |-> FALSE, value |-> <<0, 0>>]
    ELSE [defined |-> TRUE,
          value |-> CASE token_stream[k].tok = "OpAdd" -> wrapping_add(x.value, y.value)
                      [] token_stream[k].tok = "OpSub" -> wrapping_sub(x.value, y.value)
                      [] token_stream[k].tok = "OpMul" -> wrapping_mul(x.value, y.value)
                      [] token_stream[k].tok = "OpDiv" -> unsigned_div(x.value, y.value)]

operand_at(k) == [defined |-> TRUE, value |-> literal(k)]

binds_tighter(k, h) ==
    token_stream[k].tok \in {"OpMul", "OpDiv"} /\ token_stream[h].tok \in {"OpAdd", "OpSub"}

\* the value of the line: in `a op1 b op2 c` the second operator is applied
\* first only when it binds tighter than the first; parentheses decide
\* otherwise
expected_value ==
    IF token_stream[2].tok = "OpOpenBracket"
    THEN applied(7, applied(4, operand_at(3), operand_at(5)), operand_at(8))
    ELSE IF token_stream[4].tok = "OpOpenBracket"
    THEN applied(3, operand_at(2), applied(6, operand_at(5), operand_at(7)))
    ELSE IF binds_tighter(5, 3)
    THEN applied(3, operand_at(2), applied(5, operand_at(4), operand_at(6)))
    ELSE applied(5, applied(3, operand_at(2), operand_at(4)), operand_at(6))

====
